---- MODULE Spec2Model ----
(***************************************************************************)
(* State-machine model of the streaming session subsystem of the chat      *)
(* server (apps/server/src/index.ts with the WebSocket handlers, and       *)
(* apps/server/src/bedrock.ts): the per-connection message dispatch, the   *)
(* audio frame queue (wsToAudioStream) with its transcription relay, and   *)
(* the chat turn (handleStreamingChat) with its summary decision.          *)
(*                                                                         *)
(* Texts that the code inspects are sequences of one-character strings.    *)
(* An action is the code a handler runs until it has to wait for the       *)
(* client or for a backend.                                                *)
(***************************************************************************)
EXTENDS Integers, Sequences, FiniteSets, TLC

(***************************************************************************)
(* Bounds of the model                                                     *)
(***************************************************************************)
MaxConns == 2
MaxTurns == 2
MaxFrags == 2
MaxPush == 2
MaxResults == 1
MaxCtl == 1
MaxClock == 1
MaxQueue == 2
MaxRelayed == 3

Conns == 1..MaxConns

(***************************************************************************)
(* Text helpers (JavaScript string operations used by the code)            *)
(***************************************************************************)
IsWs(ch) == ch \in {" ", "\n", "\t"}

Terminators == {".", "!", "?"}

\* the backtick character, which a TLA+ string literal cannot hold
Backtick == "GRAVE"

Quotes == {"\"", "'", Backtick}

UpperCase == {"A","B","C","D","E","F","G","H","I","J","K","L","M",
              "N","O","P","Q","R","S","T","U","V","W","X","Y","Z"}

Min(S) == CHOOSE i \in S : \A j \in S : i <= j

Max(S) == CHOOSE i \in S : \A j \in S : i >= j

\* String.prototype.trim
Trim(s) ==
    LET solid == {i \in 1..Len(s) : ~IsWs(s[i])}
    IN IF solid = {} THEN <<>> ELSE SubSeq(s, Min(solid), Max(solid))

\* String.prototype.includes
Includes(s, pat) ==
    \E i \in 1..(Len(s) - Len(pat) + 1) : SubSeq(s, i, i + Len(pat) - 1) = pat

\* String.prototype.endsWith('.')
EndsWithDot(s) == s # <<>> /\ s[Len(s)] = "."

\* s.split(/\s+/).filter(Boolean).length
WordCount(s) ==
    Cardinality({i \in 1..Len(s) : ~IsWs(s[i]) /\ (i = 1 \/ IsWs(s[i-1]))})

\* length of the leading run of non-whitespace characters
RunLen(s) ==
    LET gaps == {i \in 1..Len(s) : IsWs(s[i])}
    IN IF gaps = {} THEN Len(s) ELSE Min(gaps) - 1

\* s.split(/\s+/) of a trimmed, non-empty s: its words in order
RECURSIVE WordsOf(_)
WordsOf(s) ==
    IF s = <<>> THEN <<>>
    ELSE IF IsWs(Head(s)) THEN WordsOf(Tail(s))
    ELSE <<SubSeq(s, 1, RunLen(s))>> \o WordsOf(SubSeq(s, RunLen(s) + 1, Len(s)))

\* Array.prototype.join(' ')
RECURSIVE JoinSpace(_)
JoinSpace(ws) ==
    IF ws = <<>> THEN <<>>
    ELSE IF Len(ws) = 1 THEN ws[1]
    ELSE ws[1] \o <<" ">> \o JoinSpace(Tail(ws))

\* the end of group 1 of /^(.+?[.!?])( |\n|$)/s on t, 0 when there is no match
MatchEnd(t) ==
    LET ends == {i \in 2..Len(t) : /\ t[i] \in Terminators
                                   /\ (i = Len(t) \/ t[i+1] \in {" ", "\n"})}
    IN IF ends = {} THEN 0 ELSE Min(ends)

(***************************************************************************)
(* Summary decision of the chat turn                                       *)
(***************************************************************************)
\* fullResponse.trim().match(...)?.[1] ?? fullResponse.trim()
\* (t ranges over the one value of fullResponse.trim())
FirstSentence(fullResponse) ==
    CHOOSE fs \in {IF MatchEnd(t) = 0 THEN t ELSE SubSeq(t, 1, MatchEnd(t)) :
                     t \in {Trim(fullResponse)}} : TRUE

MinSummaryLen == 15
MaxSummaryLen == 300
MinSummaryWords == 3
MaxSummaryWords == 60
MaxCoercedWords == 12

\* variant: the length has to exceed the lower limit
GateAcceptsAboveMin(fs) ==
    /\ fs # <<>>
    /\ Len(fs) > MinSummaryLen /\ Len(fs) <= MaxSummaryLen
    /\ WordCount(fs) >= MinSummaryWords
    /\ WordCount(fs) <= MaxSummaryWords
    /\ ~Includes(fs, <<Backtick, Backtick, Backtick>>) /\ ~Includes(fs, <<"h","t","t","p">>)
    /\ ~\E i \in 1..Len(fs) : fs[i] \in {"{", "}", ";"}
    /\ fs[1] \in UpperCase

\* the condition of the if that chooses between the leading sentence and
\* the summarizer
GateAccepts(fs) ==
    /\ fs # <<>>
    /\ Len(fs) >= MinSummaryLen /\ Len(fs) <= MaxSummaryLen
    /\ WordCount(fs) >= MinSummaryWords
    /\ WordCount(fs) <= MaxSummaryWords
    /\ ~Includes(fs, <<Backtick, Backtick, Backtick>>) /\ ~Includes(fs, <<"h","t","t","p">>)
    /\ ~\E i \in 1..Len(fs) : fs[i] \in {"{", "}", ";"}
    /\ fs[1] \in UpperCase

HeuristicSummary(fs) == IF EndsWithDot(fs) THEN fs ELSE fs \o <<".">>

FALLBACK_SUMMARY == <<"H","e","r","e"," ","i","s"," ","a"," ","b","r","i","e","f"," ","o","v","e","r","v","i","e","w",".">>

\* variant: the quote characters are left in the summary
enforceKeepsQuotes(s) ==
    LET stops == {i \in 1..Len(s) : s[i] \in Terminators}
        cut == IF stops = {} THEN Len(s) ELSE Min(stops) - 1
        firstSentence == SubSeq(s, 1, cut)
        allWords == WordsOf(Trim(firstSentence))
        words == SubSeq(allWords, 1, IF Len(allWords) < MaxCoercedWords
                                     THEN Len(allWords) ELSE MaxCoercedWords)
        out == Trim(JoinSpace(words))
    IN IF out = <<>> THEN FALLBACK_SUMMARY
       ELSE IF EndsWithDot(out) THEN out ELSE out \o <<".">>

enforceOneSentenceSummary(s) ==
    LET stops == {i \in 1..Len(s) : s[i] \in Terminators}
        cut == IF stops = {} THEN Len(s) ELSE Min(stops) - 1
        firstSentence == SubSeq(s, 1, cut)
        allWords == WordsOf(Trim(firstSentence))
        words == SubSeq(allWords, 1, IF Len(allWords) < MaxCoercedWords
                                     THEN Len(allWords) ELSE MaxCoercedWords)
        out == Trim(SelectSeq(JoinSpace(words), LAMBDA ch : ch \notin Quotes))
    IN IF out = <<>> THEN FALLBACK_SUMMARY
       ELSE IF EndsWithDot(out) THEN out ELSE out \o <<".">>

(***************************************************************************)
(* Configuration and fixed data                                            *)
(***************************************************************************)
\* process.env.BEDROCK_INFERENCE_PROFILE_ARN is not set; the model is of the
\* live configuration (MOCK_BEDROCK is not 'true')
BEDROCK_INFERENCE_PROFILE_ARN == FALSE

AnthropicModelIds == {"anthropic.claude-sonnet-4-20250514-v1:0",
                      "anthropic.claude-3-5-sonnet-20241022-v2:0",
                      "anthropic.claude-3-haiku-20240307-v1:0"}

SUPPORTED_MODEL_IDS == AnthropicModelIds \cup {"meta.llama-3.1-405b-instruct-v1:0"}

\* modelId.startsWith('anthropic.')
StartsWithAnthropic(modelId) == modelId \in AnthropicModelIds

\* rows of the chats table: one chat bound to an Anthropic model, one bound to
\* the supported non-Anthropic model, one whose model left the catalog
ChatRows == [ca |-> "anthropic.claude-3-haiku-20240307-v1:0",
             cm |-> "meta.llama-3.1-405b-instruct-v1:0",
             cu |-> "retired.model-v0"]

\* db.select().from(chats).where(eq(chats.id, chatId)): <<>> or one row
SelectChat(chatId) ==
    IF chatId \in DOMAIN ChatRows
    THEN <<[id |-> chatId, modelId |-> ChatRows[chatId]]>>
    ELSE <<>>

STREAM_ERROR_TEXT == <<"E","r","r","o","r"," ","o","c","c","u","r","r","e","d"," ","d","u","r","i","n","g"," ","s","t","r","e","a","m","i","n","g"," ","r","e","s","p","o","n","s","e",".">>

UNSUPPORTED_STREAM_TEXT == <<"T","h","i","s"," ","m","o","d","e","l"," ","i","s"," ","n","o","t"," ","y","e","t"," ","s","u","p","p","o","r","t","e","d"," ","f","o","r"," ","s","t","r","e","a","m","i","n","g"," ","i","n"," ","t","h","e"," ","s","e","r","v","e","r","."," ","T","r","y"," ","a","n"," ","A","n","t","h","r","o","p","i","c"," ","m","o","d","e","l",".">>

MODEL_ID_MISSING_TEXT == <<"M","o","d","e","l"," ","I","D"," ","i","s"," ","m","i","s","s","i","n","g",".">>

(***************************************************************************)
(* Inputs of the environment                                               *)
(***************************************************************************)
\* text deltas the generation backend may stream
FragLead == <<"T","h","e"," ","c","a","p","i","t","a","l"," ","o","f"," ","F","r","a","n","c","e"," ">>

FragTail == <<"i","s"," ","P","a","r","i","s","."," ","I","t"," ","i","s"," ","b","i","g",".">>

Fragments == {FragLead, FragTail}

\* the deltas of a run are told apart by their order: the backend streams
\* FragLead, FragTail, FragLead, ... whichever turn receives them
Deltas == <<FragLead, FragTail>>

NthDelta(n) == Deltas[((n - 1) % Len(Deltas)) + 1]

\* texts the summarizer model may return
RawSummaries == {<<>>, <<"H","e","r","e"," ","i","s"," ","'","i","n","f","o","'"," ","a","b","o","u","t"," ","P","a","r","i","s","."," ","M","o","r","e">>}

\* n copies of a character
Rep(n, ch) == [i \in 1..n |-> ch]

\* texts of n characters in three words and in two words, and a text of k
\* words, each starting with an uppercase letter and free of terminators
ThreeWords(n) == <<"A">> \o Rep(n - 5, "b") \o <<" ", "c", " ", "d">>

TwoWords(n) == <<"A">> \o Rep(n - 3, "b") \o <<" ", "c">>

ManyWords(k) == JoinSpace([i \in 1..k |-> <<"A", "b">>])

\* a text the gate accepts: 15 characters, three words
PlainText == ThreeWords(MinSummaryLen)

\* words that hold a code fence, http, a brace or a semicolon, and words that
\* fall just short of one
Marks ==
    {<<Backtick, Backtick, Backtick>>, <<Backtick, Backtick>>,
     <<"h","t","t","p">>, <<"h","t","t">>, <<"{">>, <<"}">>, <<";">>, <<":">>}

\* responses at the limits of the gate: the lengths and the word counts
\* around each bound, a marked word, the first character
GateTexts ==
    {ThreeWords(n) : n \in {MinSummaryLen - 1, MinSummaryLen,
                             MaxSummaryLen, MaxSummaryLen + 1}}
    \cup {TwoWords(MinSummaryLen)}
    \cup {ManyWords(k) : k \in {MaxSummaryWords, MaxSummaryWords + 1}}
    \cup {PlainText \o <<" ">> \o w : w \in Marks}
    \cup {<<ch>> \o Tail(PlainText) : ch \in {"a", "1", "Z"}}

\* responses with a terminator in different places: followed by a space, at
\* the end, inside a number, followed by a letter, as the first character;
\* with a double space and with a newline inside the sentence; with
\* whitespace around the text
SentenceTexts ==
    {<<" ">> \o PlainText \o <<".", " ", "E", " ">>,
     PlainText \o <<".">>,
     PlainText \o <<" ", " ", "e", ".", " ", "F">>,
     PlainText \o <<"\n", "e", "!", " ", "F">>,
     PlainText \o <<" ", "3", ".", "1", "4", "?", " ", "F">>,
     PlainText \o <<".", "E">>,
     <<".">> \o PlainText \o <<".", " ", "E">>}

\* a text of n characters in three words, free of terminators, with two
\* spaces between its first two words
Spaced(n) == <<"A">> \o Rep(n - 6, "b") \o <<" ", " ", "c", " ", "d">>

\* responses whose length is at a limit of the gate and one more than the
\* length they have with every run of whitespace replaced by one space
SpacedTexts == {Spaced(MinSummaryLen), Spaced(MaxSummaryLen + 1)}

\* texts the summarizer model may return: empty, blank, more words than
\* the limit, the limit with a period, quoted words, quotes only, a quote
\* as a word, a terminator first, an exclamation
RawTexts ==
    RawSummaries
    \cup {<<" ", " ">>,
          ManyWords(MaxCoercedWords + 1),
          ManyWords(MaxCoercedWords) \o <<".">>,
          <<"\"","H","i","\""," ","'","a","'"," ",Backtick,"x",Backtick,"."," ","M">>,
          <<"\"", "'", Backtick>>,
          <<"a", " ", "\"", " ", "b">>,
          <<".", " ", "A", "b">>,
          <<"W", "o", "w", "!", " ", "m">>}

\* binary PCM chunks
Chunks == {"b1", "b2"}

UserContent == <<"H","i">>

\* text frames: the raw text is END, PING, a text JSON.parse rejects, the JSON
\* text null, or a JSON object with the fields type, chatId and content
\* ("" stands for an absent or empty field)
TextFrame(raw, type, chatId, content) ==
    [kind |-> "string", raw |-> raw, type |-> type, chatId |-> chatId,
     content |-> content, bytes |-> ""]

BinaryFrame(b) ==
    [kind |-> "binary", raw |-> "", type |-> "", chatId |-> "",
     content |-> <<>>, bytes |-> b]

ChatFrames ==
    {TextFrame("object", "chat", id, UserContent) : id \in {"ca", "cm", "cu", "cx", ""}}
    \cup {TextFrame("object", "chat", "ca", <<>>)}

ControlFrames ==
    {TextFrame("END", "", "", <<>>), TextFrame("PING", "", "", <<>>),
     TextFrame("garbage", "", "", <<>>), TextFrame("null", "", "", <<>>),
     TextFrame("object", "other", "", <<>>)}

DataFrames == {BinaryFrame(b) : b \in Chunks} \cup ControlFrames \cup ChatFrames

Paths == {"/ws/stt", "/ws/chat", "/health"}

(***************************************************************************)
(* State                                                                   *)
(***************************************************************************)
VARIABLES
    conns,    \* per connection: type given by fetch (ws.data.type), socket state
    sent,     \* per connection: the frames given to ws.send, in order
    audio,    \* per connection: ws.audio, the object wsToAudioStream returns
    relay,    \* per connection: position of the transcription loop of open()
    store,    \* rows of the messages table, in insertion order
    turns,    \* the calls of handleStreamingChat, in call order
    clock,    \* the last value read from the wall clock
    nextId    \* source of randomUUID values

vars == <<conns, sent, audio, relay, store, turns, clock, nextId>>

\* ws.send(JSON.stringify(f)) on connection c: sent records every call, also
\* those made after the socket has closed
Frame(type, turn) ==
    [type |-> type, turn |-> turn, messageId |-> 0, responseId |-> 0,
     text |-> <<>>, summary |-> <<>>, error |-> ""]

WsSend(c, f) ==
    [sent EXCEPT ![c] = Append(@, f)]

\* ws.audio before open() sets it. pushed, yielded and late record the calls
\* (every chunk pushed, every chunk yielded, the pushes made after end()); no
\* action reads them
NoAudio == [exists |-> FALSE, queue |-> <<>>, done |-> FALSE, iter |-> "none",
            pushed |-> <<>>, yielded |-> <<>>, late |-> 0]

NoRelay == [pc |-> "none", nres |-> 0]

\* every (connection, index) of a frame sent so far
FramePositions == UNION {{c} \X (1..Len(sent[c])) : c \in Conns}

\* sum of f[i] over the finite domain of f; it counts the inputs the bounds cap
RECURSIVE SumOver(_)
SumOver(f) ==
    IF DOMAIN f = {} THEN 0
    ELSE LET i == CHOOSE j \in DOMAIN f : TRUE
         IN f[i] + SumOver([j \in DOMAIN f \ {i} |-> f[j]])

Init ==
    /\ conns = [c \in Conns |-> [type |-> "none", state |-> "new"]]
    /\ sent = [c \in Conns |-> <<>>]
    /\ audio = [c \in Conns |-> NoAudio]
    /\ relay = [c \in Conns |-> NoRelay]
    /\ store = <<>>
    /\ turns = <<>>
    /\ clock = 0
    /\ nextId = 1

(***************************************************************************)
(* Message store                                                           *)
(***************************************************************************)
\* the columns of sqliteTable('messages', ...): the table has no summary
\* column
MessagesColumns == {"id", "chatId", "role", "content", "createdAt"}

\* the row an insert writes: the statement is built from the columns of the
\* table, so a key of the values that names no column is left out; turn
\* records the call that wrote the row and is read by no action
StoredRow(row) ==
    [k \in (DOMAIN row) \cap (MessagesColumns \cup {"turn"}) |-> row[k]]

\* db.insert(messages).values(row)
\* variant: the insert is issued again after it has succeeded
DbInsertRetried(rows, row) == Append(Append(rows, StoredRow(row)), StoredRow(row))

DbInsert(rows, row) == Append(rows, StoredRow(row))

InsertSorted(sorted, m) ==
    LET k == Cardinality({i \in 1..Len(sorted) : sorted[i].createdAt <= m.createdAt})
    IN SubSeq(sorted, 1, k) \o <<m>> \o SubSeq(sorted, k + 1, Len(sorted))

RECURSIVE SortByCreatedAt(_)
SortByCreatedAt(rows) ==
    IF rows = <<>> THEN <<>>
    ELSE InsertSorted(SortByCreatedAt(SubSeq(rows, 1, Len(rows) - 1)), rows[Len(rows)])

\* db.select().from(messages).where(eq(messages.chatId, chatId))
\*   .orderBy(messages.createdAt)
ListMessagesByChat(rows, chatId) ==
    SortByCreatedAt(SelectSeq(rows, LAMBDA m : m.chatId = chatId))

\* the values new Date() may return: the clock has moved on or it has not
Now == IF clock < MaxClock THEN {clock, clock + 1} ELSE {clock}

\* new Date() when every read finds the clock moved on
Later == {clock + 1}

(***************************************************************************)
(* Frame Queue Adapter: wsToAudioStream                                    *)
(***************************************************************************)
\* const audio = wsToAudioStream(ws)
wsToAudioStream == [NoAudio EXCEPT !.exists = TRUE]

\* push(b) { queue.push(b); }
push(a, b) ==
    [a EXCEPT !.queue = Append(@, b),
              !.pushed = Append(@, b),
              !.late = IF a.done THEN @ + 1 ELSE @]

\* end() { done = true; }
end(a) == [a EXCEPT !.done = TRUE]

\* ws.audio?.end()
EndIfAny(a) == IF a.exists THEN end(a) ELSE a

\* one turn of the loop of the async iterator, run when the consumer asks for
\* the next element: while (!done || queue.length) it yields the head of the
\* queue or, the queue being empty, sleeps; it finishes when the condition fails
\* variant: the loop takes the newest chunk (queue.pop()) in place of the
\* oldest (queue.shift())
pullNewest(a) ==
    IF ~a.done \/ Len(a.queue) > 0
    THEN IF a.queue # <<>>
         THEN [a EXCEPT !.queue = SubSeq(@, 1, Len(@) - 1),
                        !.yielded = Append(@, a.queue[Len(a.queue)]),
                        !.iter = "running"]
         ELSE [a EXCEPT !.iter = "running"]
    ELSE [a EXCEPT !.iter = "finished"]

\* variant: the loop has no exit (while (true))
pullForEver(a) ==
    IF a.queue # <<>>
    THEN [a EXCEPT !.queue = Tail(@), !.yielded = Append(@, Head(a.queue)),
                   !.iter = "running"]
    ELSE [a EXCEPT !.iter = "running"]

pull(a) ==
    IF ~a.done \/ Len(a.queue) > 0
    THEN IF a.queue # <<>>
         THEN [a EXCEPT !.queue = Tail(@), !.yielded = Append(@, Head(a.queue)),
                        !.iter = "running"]
         ELSE [a EXCEPT !.iter = "running"]
    ELSE [a EXCEPT !.iter = "finished"]

(***************************************************************************)
(* Connections: Bun.serve fetch, websocket.open, websocket.close           *)
(***************************************************************************)
\* variant: close(ws) leaves the adapter as it is
OnCloseKeepsOpen(c) == audio

\* close(ws): ws.audio?.end()
OnClose(c) == [audio EXCEPT ![c] = EndIfAny(@)]

\* variant: open(ws) creates the adapter before it looks at ws.data.type
openAdapterFirst(c, type) ==
    /\ conns' = [conns EXCEPT ![c] = [type |-> type, state |-> "open"]]
    /\ audio' = [audio EXCEPT ![c] = wsToAudioStream]
    /\ sent' = [sent EXCEPT ![c] = Append(@, Frame("ready", 0))]
    /\ relay' = IF type = "stt"
                THEN [relay EXCEPT ![c] = [pc |-> "sending", nres |-> 0]]
                ELSE relay

\* variant: only the stt branch of open(ws) sends ready
openReadyForAudioOnly(c, type) ==
    /\ conns' = [conns EXCEPT ![c] = [type |-> type, state |-> "open"]]
    /\ IF type = "stt"
       THEN /\ audio' = [audio EXCEPT ![c] = wsToAudioStream]
            /\ sent' = [sent EXCEPT ![c] = Append(@, Frame("ready", 0))]
            /\ relay' = [relay EXCEPT ![c] = [pc |-> "sending", nres |-> 0]]
       ELSE UNCHANGED <<audio, sent, relay>>

\* open(ws) up to its first await, type being ws.data.type: the stt branch
\* creates the adapter, sends ready and starts the transcription; the chat
\* branch sends ready
open(c, type) ==
    /\ conns' = [conns EXCEPT ![c] = [type |-> type, state |-> "open"]]
    /\ sent' = [sent EXCEPT ![c] = Append(@, Frame("ready", 0))]
    /\ IF type = "stt"
       THEN /\ audio' = [audio EXCEPT ![c] = wsToAudioStream]
            /\ relay' = [relay EXCEPT ![c] = [pc |-> "sending", nres |-> 0]]
       ELSE UNCHANGED <<audio, relay>>

\* variant: every upgrade request is upgraded, the paths other than /ws/stt
\* as chat connections
fetchUpgradesAnyPath(c, pathname, isUpgrade) ==
    /\ conns[c].state = "new"
    /\ \A d \in 1..(c - 1) : conns[d].state # "new"
    /\ UNCHANGED <<store, turns, clock, nextId>>
    /\ IF pathname = "/ws/stt" /\ isUpgrade THEN open(c, "stt")
       ELSE IF isUpgrade THEN open(c, "chat")
       ELSE /\ conns' = [conns EXCEPT ![c] = [type |-> "none", state |-> "http"]]
            /\ UNCHANGED <<sent, audio, relay>>

\* fetch(req, srv) and, when the upgrade succeeds, open(ws). isUpgrade: the
\* request is a WebSocket upgrade request. Connections are numbered in the
\* order of their requests
fetch(c, pathname, isUpgrade) ==
    /\ conns[c].state = "new"
    /\ \A d \in 1..(c - 1) : conns[d].state # "new"
    /\ UNCHANGED <<store, turns, clock, nextId>>
    /\ IF pathname = "/ws/stt" /\ isUpgrade THEN open(c, "stt")
       ELSE IF pathname = "/ws/chat" /\ isUpgrade THEN open(c, "chat")
       ELSE /\ conns' = [conns EXCEPT ![c] = [type |-> "none", state |-> "http"]]
            /\ UNCHANGED <<sent, audio, relay>>

\* variant: close(ws) also ends the chat turns of the connection
ClientCloseCancels(c) ==
    /\ conns[c].state = "open"
    /\ conns' = [conns EXCEPT ![c].state = "closed"]
    /\ audio' = OnClose(c)
    /\ turns' = [t \in DOMAIN turns |->
                    IF turns[t].conn = c THEN [turns[t] EXCEPT !.pc = "done"]
                    ELSE turns[t]]
    /\ UNCHANGED <<sent, relay, store, clock, nextId>>

\* the client closes the socket: close(ws) runs
ClientClose(c) ==
    /\ conns[c].state = "open"
    /\ conns' = [conns EXCEPT ![c].state = "closed"]
    /\ audio' = OnClose(c)
    /\ UNCHANGED <<sent, relay, store, turns, clock, nextId>>

(***************************************************************************)
(* Transcription relay: the stt branch of open(ws)                         *)
(***************************************************************************)
RelayActive(c) == relay[c].pc \in {"sending", "streaming"}

\* the transcription client asks the AudioStream for its next element
AudioPull(c) ==
    /\ RelayActive(c)
    /\ audio[c].iter # "finished"
    /\ audio' = [audio EXCEPT ![c] = pull(@)]
    /\ UNCHANGED <<conns, sent, relay, store, turns, clock, nextId>>

\* finally { ws.close(); } and the close(ws) it causes
RelayClose(c) ==
    /\ conns' = [conns EXCEPT ![c].state = "closed"]
    /\ audio' = OnClose(c)
    /\ relay' = [relay EXCEPT ![c].pc = "finished"]

\* await transcribe.send(cmd) returns
TranscribeSendReturns(c) ==
    /\ relay[c].pc = "sending"
    /\ relay' = [relay EXCEPT ![c].pc = "streaming"]
    /\ UNCHANGED <<conns, sent, audio, store, turns, clock, nextId>>

\* variant: the catch sends the error frame and the loop is entered again
TranscribeThrowsGoesOn(c) ==
    /\ RelayActive(c)
    /\ Len(sent[c]) < 3
    /\ sent' = WsSend(c, [Frame("error", 0) EXCEPT !.error = "TranscribeError"])
    /\ relay' = [relay EXCEPT ![c].pc = "streaming"]
    /\ UNCHANGED <<conns, audio, store, turns, clock, nextId>>

\* transcribe.send or the result stream throws: catch, then finally
TranscribeThrows(c) ==
    /\ RelayActive(c)
    /\ sent' = WsSend(c, [Frame("error", 0) EXCEPT !.error = "TranscribeError"])
    /\ RelayClose(c)
    /\ UNCHANGED <<store, turns, clock, nextId>>

\* one event of res.TranscriptResultStream carrying one result
TranscriptEvent(c, text, isPartial) ==
    /\ relay[c].pc = "streaming"
    /\ SumOver([d \in Conns |-> relay[d].nres]) < MaxResults
    /\ relay' = [relay EXCEPT ![c].nres = @ + 1]
    /\ sent' = IF Trim(text) # <<>>
               THEN WsSend(c, [Frame(IF isPartial THEN "partial" ELSE "final", 0)
                                  EXCEPT !.text = Trim(text)])
               ELSE sent
    /\ UNCHANGED <<conns, audio, store, turns, clock, nextId>>

\* variant: the loop over the results sends a frame for every result, the
\* empty ones included
RelayedFramesAll(results) ==
    [k \in 1..Len(results) |->
        [Frame(IF results[k].isPartial THEN "partial" ELSE "final", 0)
            EXCEPT !.text = Trim(results[k].text)]]

\* for (const r of results): the frames the loop sends, in order
RECURSIVE RelayedFrames(_)
RelayedFrames(results) ==
    IF results = <<>> THEN <<>>
    ELSE LET r == Head(results)
             text == Trim(r.text)
         IN (IF text # <<>>
             THEN <<[Frame(IF r.isPartial THEN "partial" ELSE "final", 0)
                        EXCEPT !.text = text]>>
             ELSE <<>>)
            \o RelayedFrames(Tail(results))

\* one event of res.TranscriptResultStream carrying a list of results
TranscriptResults(c, results) ==
    /\ relay[c].pc = "streaming"
    /\ SumOver([d \in Conns |-> relay[d].nres]) + Len(results) <= MaxRelayed
    /\ relay' = [relay EXCEPT ![c].nres = @ + Len(results)]
    /\ sent' = [sent EXCEPT ![c] = @ \o RelayedFrames(results)]
    /\ UNCHANGED <<conns, audio, store, turns, clock, nextId>>

\* variant: ws.close() sits in the catch, so the relay that ends without an
\* error leaves the socket open
TranscriptEndsKeepsOpen(c) ==
    /\ relay[c].pc = "streaming"
    /\ relay' = [relay EXCEPT ![c].pc = "finished"]
    /\ UNCHANGED <<conns, audio, sent, store, turns, clock, nextId>>

\* the result stream ends: finally
TranscriptEnds(c) ==
    /\ relay[c].pc = "streaming"
    /\ RelayClose(c)
    /\ UNCHANGED <<sent, store, turns, clock, nextId>>

(***************************************************************************)
(* Chat turn: handleStreamingChat and generateWithBedrockStream            *)
(*                                                                         *)
(* db is drizzle over bun:sqlite (db/client.ts), whose queries run          *)
(* synchronously: awaiting one hands control to no other handler.  The     *)
(* turn is suspended only while it waits for the generation backend: for   *)
(* the next element of the stream, and for summarizeText.                  *)
(***************************************************************************)
\* the locals of one call of handleStreamingChat; fault records which backend
\* call of the turn failed and is read by no action
NewTurn(c, data) ==
    [conn |-> c, chatId |-> data.chatId, content |-> data.content,
     pc |-> "done", modelId |-> "", gen |-> "none", messageId |-> 0,
     history |-> <<>>, fullResponse |-> <<>>, nfrags |-> 0,
     responseId |-> 0, responseTime |-> 0, summary |-> <<>>, fault |-> "none"]

TurnIds == 1..Len(turns)

\* if (!chatId || !content)
MissingField(data) == data.chatId = "" \/ data.content = <<>>

\* variant: the chat is looked up before the fields are checked
ValidationErrorLookupFirst(data) ==
    IF SelectChat(data.chatId) = <<>> THEN "Chat not found"
    ELSE IF SelectChat(data.chatId)[1].modelId \notin SUPPORTED_MODEL_IDS
    THEN "Unsupported model for this chat"
    ELSE IF MissingField(data) THEN "Missing chatId or content"
    ELSE ""

\* the three checks in their order: the error to report, "" when all pass
ValidationError(data) ==
    IF MissingField(data) THEN "Missing chatId or content"
    ELSE IF SelectChat(data.chatId) = <<>> THEN "Chat not found"
    ELSE IF SelectChat(data.chatId)[1].modelId \notin SUPPORTED_MODEL_IDS
    THEN "Unsupported model for this chat"
    ELSE ""

\* generateWithBedrockStream up to its first yield or await: which branch runs
GeneratorStart(modelId) ==
    IF modelId = "" THEN "yieldMissing"
    ELSE IF BEDROCK_INFERENCE_PROFILE_ARN \/ StartsWithAnthropic(modelId) THEN "stream"
    ELSE "yieldUnsupported"

\* the ids of rows, in order
IdsOf(rows) == [i \in 1..Len(rows) |-> rows[i].id]

\* variant: the history is read before the user message is inserted
handleStreamingChatReadsFirst(c, data, now) ==
    /\ Len(turns) < MaxTurns
    /\ LET t == Len(turns) + 1
       IN IF ValidationError(data) # ""
          THEN /\ sent' = WsSend(c, [Frame("error", t) EXCEPT !.error = ValidationError(data)])
               /\ turns' = Append(turns, NewTurn(c, data))
               /\ UNCHANGED <<store, clock, nextId>>
          ELSE LET chat == SelectChat(data.chatId)[1]
                   messageId == nextId
                   rows == DbInsert(store, [id |-> messageId, chatId |-> data.chatId,
                                            role |-> "user", content |-> data.content,
                                            createdAt |-> now, turn |-> t])
                   history == ListMessagesByChat(store, data.chatId)
               IN /\ store' = rows
                  /\ clock' = now
                  /\ nextId' = nextId + 1
                  /\ sent' = WsSend(c, [Frame("start", t) EXCEPT !.messageId = messageId])
                  /\ turns' = Append(turns, [NewTurn(c, data) EXCEPT
                                                !.pc = "generating",
                                                !.modelId = chat.modelId,
                                                !.messageId = messageId,
                                                !.history = IdsOf(history),
                                                !.gen = GeneratorStart(chat.modelId)])
    /\ UNCHANGED <<conns, audio, relay>>

\* handleStreamingChat(ws, data) up to the first wait for the generator: the
\* checks, the insert of the user message, the history, the start frame and the
\* creation of the generator. now: the value new Date() returns
handleStreamingChat(c, data, now) ==
    /\ Len(turns) < MaxTurns
    /\ LET t == Len(turns) + 1
       IN IF ValidationError(data) # ""
          THEN /\ sent' = WsSend(c, [Frame("error", t) EXCEPT !.error = ValidationError(data)])
               /\ turns' = Append(turns, NewTurn(c, data))
               /\ UNCHANGED <<store, clock, nextId>>
          ELSE LET chat == SelectChat(data.chatId)[1]
                   messageId == nextId
                   rows == DbInsert(store, [id |-> messageId, chatId |-> data.chatId,
                                            role |-> "user", content |-> data.content,
                                            createdAt |-> now, turn |-> t])
                   history == ListMessagesByChat(rows, data.chatId)
               IN /\ store' = rows
                  /\ clock' = now
                  /\ nextId' = nextId + 1
                  /\ sent' = WsSend(c, [Frame("start", t) EXCEPT !.messageId = messageId])
                  /\ turns' = Append(turns, [NewTurn(c, data) EXCEPT
                                                !.pc = "generating",
                                                !.modelId = chat.modelId,
                                                !.messageId = messageId,
                                                !.history = IdsOf(history),
                                                !.gen = GeneratorStart(chat.modelId)])
    /\ UNCHANGED <<conns, audio, relay>>

\* variant: the body assigns the chunk (fullResponse = chunk) in place of
\* appending it
OnChunkAssign(t, chunk, gen) ==
    /\ turns' = [turns EXCEPT ![t].fullResponse = chunk,
                              ![t].nfrags = IF gen = "stream" THEN @ + 1 ELSE @,
                              ![t].fault = IF turns[t].gen = "stream" /\ gen = "last"
                                           THEN "generation" ELSE @,
                              ![t].gen = gen]
    /\ sent' = WsSend(turns[t].conn, [Frame("chunk", t) EXCEPT !.messageId = turns[t].messageId,
                                                              !.text = chunk])
    /\ UNCHANGED <<conns, audio, relay, store, clock, nextId>>

\* variant: the body of the for await also writes the text accumulated so
\* far to the store, as an assistant message of the turn
OnChunkPersists(t, chunk, gen) ==
    /\ turns' = [turns EXCEPT ![t].fullResponse = @ \o chunk,
                              ![t].nfrags = IF gen = "stream" THEN @ + 1 ELSE @,
                              ![t].fault = IF turns[t].gen = "stream" /\ gen = "last"
                                           THEN "generation" ELSE @,
                              ![t].gen = gen]
    /\ sent' = WsSend(turns[t].conn, [Frame("chunk", t) EXCEPT !.messageId = turns[t].messageId,
                                                              !.text = chunk])
    /\ store' = DbInsert(store, [id |-> nextId, chatId |-> turns[t].chatId,
                                 role |-> "assistant",
                                 content |-> turns[t].fullResponse \o chunk,
                                 createdAt |-> clock, turn |-> t])
    /\ UNCHANGED <<conns, audio, relay, clock, nextId>>

\* the body of the for await: fullResponse += chunk; ws.send(chunk frame)
OnChunk(t, chunk, gen) ==
    /\ turns' = [turns EXCEPT ![t].fullResponse = @ \o chunk,
                              ![t].nfrags = IF gen = "stream" THEN @ + 1 ELSE @,
                              ![t].fault = IF turns[t].gen = "stream" /\ gen = "last"
                                           THEN "generation" ELSE @,
                              ![t].gen = gen]
    /\ sent' = WsSend(turns[t].conn, [Frame("chunk", t) EXCEPT !.messageId = turns[t].messageId,
                                                              !.text = chunk])
    /\ UNCHANGED <<conns, audio, relay, store, clock, nextId>>

\* the text deltas streamed so far, over all turns
Streamed == SumOver([u \in TurnIds |-> turns[u].nfrags])

\* the backend streams a text delta: yield textDelta
GenYield(t, f) ==
    /\ turns[t].pc = "generating"
    /\ turns[t].gen = "stream"
    /\ Streamed < MaxFrags
    /\ f = NthDelta(Streamed + 1)
    /\ OnChunk(t, f, "stream")

\* the backend streams the whole response as one text delta
GenYieldText(t, f) ==
    /\ turns[t].pc = "generating"
    /\ turns[t].gen = "stream"
    /\ turns[t].nfrags = 0
    /\ OnChunk(t, f, "stream")

\* bedrockClient.send or the response body throws: the catch of the generator
\* yields the fixed text
GenThrow(t) ==
    /\ turns[t].pc = "generating"
    /\ turns[t].gen = "stream"
    /\ OnChunk(t, STREAM_ERROR_TEXT, "last")

\* the branches of the generator that yield one fixed text
GenFixed(t) ==
    /\ turns[t].pc = "generating"
    /\ turns[t].gen \in {"yieldMissing", "yieldUnsupported"}
    /\ OnChunk(t, IF turns[t].gen = "yieldMissing" THEN MODEL_ID_MISSING_TEXT
                  ELSE UNSUPPORTED_STREAM_TEXT, "last")

\* variant: the insert of the assistant message sits inside a step that then
\* fails, so that the catch answers with the error frame
InsertAssistantThenFail(t, responseId, responseTime, summary) ==
    /\ store' = DbInsert(store, [id |-> responseId, chatId |-> turns[t].chatId,
                                 role |-> "assistant",
                                 content |-> turns[t].fullResponse,
                                 summary |-> summary, createdAt |-> responseTime,
                                 turn |-> t])
    /\ sent' = WsSend(turns[t].conn, [Frame("error", t) EXCEPT !.error = "Error"])
    /\ turns' = [turns EXCEPT ![t].pc = "done",
                              ![t].responseId = responseId,
                              ![t].responseTime = responseTime,
                              ![t].summary = summary]

\* variant: the complete frame is sent first, the insert of the assistant
\* message not yet made
InsertAssistantSendsFirst(t, responseId, responseTime, summary) ==
    /\ store' = store
    /\ sent' = WsSend(turns[t].conn, [Frame("complete", t)
                                         EXCEPT !.messageId = turns[t].messageId,
                                                !.responseId = responseId,
                                                !.summary = summary])
    /\ turns' = [turns EXCEPT ![t].pc = "done",
                              ![t].responseId = responseId,
                              ![t].responseTime = responseTime,
                              ![t].summary = summary]

\* the insert of the assistant message, then the complete frame
InsertAssistant(t, responseId, responseTime, summary) ==
    /\ store' = DbInsert(store, [id |-> responseId, chatId |-> turns[t].chatId,
                                 role |-> "assistant",
                                 content |-> turns[t].fullResponse,
                                 summary |-> summary, createdAt |-> responseTime,
                                 turn |-> t])
    /\ sent' = WsSend(turns[t].conn, [Frame("complete", t)
                                         EXCEPT !.messageId = turns[t].messageId,
                                                !.responseId = responseId,
                                                !.summary = summary])
    /\ turns' = [turns EXCEPT ![t].pc = "done",
                              ![t].responseId = responseId,
                              ![t].responseTime = responseTime,
                              ![t].summary = summary]

\* variant: before summarizeText is called the assistant message is inserted
\* without a summary, and it is inserted again when the summary has come
GenReturnInsertsEarly(t, responseTime) ==
    /\ turns[t].pc = "generating"
    /\ turns[t].gen \in {"stream", "last"}
    /\ clock' = responseTime
    /\ nextId' = nextId + 1
    /\ \E firstSentence \in {FirstSentence(turns[t].fullResponse)} :
          IF GateAccepts(firstSentence)
          THEN \E summary \in {HeuristicSummary(firstSentence)} :
                  InsertAssistant(t, nextId, responseTime, summary)
          ELSE /\ turns' = [turns EXCEPT ![t].pc = "summarizing",
                                         ![t].responseId = nextId,
                                         ![t].responseTime = responseTime]
               /\ store' = DbInsert(store, [id |-> nextId, chatId |-> turns[t].chatId,
                                            role |-> "assistant",
                                            content |-> turns[t].fullResponse,
                                            createdAt |-> responseTime, turn |-> t])
               /\ UNCHANGED sent
    /\ UNCHANGED <<conns, audio, relay>>

\* variant: summarizeText is called whatever the leading sentence is
GenReturnSummarizesAlways(t, responseTime) ==
    /\ turns[t].pc = "generating"
    /\ turns[t].gen \in {"stream", "last"}
    /\ clock' = responseTime
    /\ nextId' = nextId + 1
    /\ turns' = [turns EXCEPT ![t].pc = "summarizing",
                              ![t].responseId = nextId,
                              ![t].responseTime = responseTime]
    /\ UNCHANGED <<store, sent, conns, audio, relay>>

\* the generator returns: responseId and responseTime are taken, then the
\* leading sentence is the summary or summarizeText is called
GenReturn(t, responseTime) ==
    /\ turns[t].pc = "generating"
    /\ turns[t].gen \in {"stream", "last"}
    /\ clock' = responseTime
    /\ nextId' = nextId + 1
    /\ \E firstSentence \in {FirstSentence(turns[t].fullResponse)} :
          IF GateAccepts(firstSentence)
          THEN \E summary \in {HeuristicSummary(firstSentence)} :
                  InsertAssistant(t, nextId, responseTime, summary)
          ELSE /\ turns' = [turns EXCEPT ![t].pc = "summarizing",
                                         ![t].responseId = nextId,
                                         ![t].responseTime = responseTime]
               /\ UNCHANGED <<store, sent>>
    /\ UNCHANGED <<conns, audio, relay>>

\* summarizeText returns: generateWithBedrock gave raw, coerced by
\* enforceOneSentenceSummary
SummarizeReturns(t, raw) ==
    /\ turns[t].pc = "summarizing"
    /\ \E summary \in {enforceOneSentenceSummary(raw)} :
          InsertAssistant(t, turns[t].responseId, turns[t].responseTime, summary)
    /\ UNCHANGED <<conns, audio, relay, clock, nextId>>

\* variant: the catch of handleStreamingChat logs the error and sends no frame
CatchErrorSilent(t, error) ==
    /\ sent' = sent
    /\ turns' = [turns EXCEPT ![t].pc = "done", ![t].fault = "summarizer"]

\* the catch of handleStreamingChat: ws.send(error frame)
CatchError(t, error) ==
    /\ sent' = WsSend(turns[t].conn, [Frame("error", t) EXCEPT !.error = error])
    /\ turns' = [turns EXCEPT ![t].pc = "done", ![t].fault = "summarizer"]

\* variant: the catch of handleStreamingChat deletes the user message of the
\* turn before it sends the error frame
SummarizeThrowsRollsBack(t) ==
    /\ turns[t].pc = "summarizing"
    /\ CatchError(t, "Error: summarizer failed")
    /\ store' = SelectSeq(store, LAMBDA m : m.turn # t)
    /\ UNCHANGED <<conns, audio, relay, clock, nextId>>

\* variant: the catch of handleStreamingChat closes the socket after the
\* error frame
SummarizeThrowsFatal(t) ==
    /\ turns[t].pc = "summarizing"
    /\ CatchError(t, "Error: summarizer failed")
    /\ conns' = [conns EXCEPT ![turns[t].conn].state = "closed"]
    /\ UNCHANGED <<audio, relay, store, clock, nextId>>

\* summarizeText throws (its generateWithBedrock call fails)
SummarizeThrows(t) ==
    /\ turns[t].pc = "summarizing"
    /\ CatchError(t, "Error: summarizer failed")
    /\ UNCHANGED <<conns, audio, relay, store, clock, nextId>>

(***************************************************************************)
(* websocket.message                                                       *)
(***************************************************************************)
\* the frames sent so far in answer to control input: pong, Invalid JSON
CtlFrames ==
    Cardinality({p \in FramePositions :
                    \/ sent[p[1]][p[2]].type = "pong"
                    \/ sent[p[1]][p[2]].error = "Invalid JSON"})

\* variant: the queue is one array shared by the adapters, so a chunk is
\* queued on every adapter that exists
OnBinaryShared(c, data) ==
    /\ conns[c].state = "open"
    /\ data.kind = "binary"
    /\ SumOver([d \in Conns |-> Len(audio[d].pushed)]) < MaxPush
    /\ audio' = [d \in Conns |->
                    IF audio[c].exists /\ audio[d].exists
                    THEN IF d = c THEN push(audio[d], data.bytes)
                         ELSE [audio[d] EXCEPT !.queue = Append(@, data.bytes)]
                    ELSE audio[d]]
    /\ UNCHANGED <<conns, sent, relay, store, turns, clock, nextId>>

\* data instanceof Uint8Array: ws.audio?.push(data)
OnBinary(c, data) ==
    /\ conns[c].state = "open"
    /\ data.kind = "binary"
    /\ SumOver([d \in Conns |-> Len(audio[d].pushed)]) < MaxPush
    /\ audio' = [audio EXCEPT ![c] = IF @.exists THEN push(@, data.bytes) ELSE @]
    /\ UNCHANGED <<conns, sent, relay, store, turns, clock, nextId>>

\* data === 'END': ws.audio?.end()
OnEnd(c, data) ==
    /\ conns[c].state = "open"
    /\ data.kind = "string" /\ data.raw = "END"
    /\ audio' = [audio EXCEPT ![c] = EndIfAny(@)]
    /\ UNCHANGED <<conns, sent, relay, store, turns, clock, nextId>>

\* variant: PING is handled as END is, and then answered with the pong frame
OnPingEnds(c, data) ==
    /\ conns[c].state = "open"
    /\ data.kind = "string" /\ data.raw = "PING"
    /\ CtlFrames < MaxCtl
    /\ sent' = WsSend(c, Frame("pong", 0))
    /\ audio' = [audio EXCEPT ![c] = EndIfAny(@)]
    /\ UNCHANGED <<conns, relay, store, turns, clock, nextId>>

\* data === 'PING': the pong frame
OnPing(c, data) ==
    /\ conns[c].state = "open"
    /\ data.kind = "string" /\ data.raw = "PING"
    /\ CtlFrames < MaxCtl
    /\ sent' = WsSend(c, Frame("pong", 0))
    /\ UNCHANGED <<conns, audio, relay, store, turns, clock, nextId>>

\* JSON.parse(data) throws, or parsedData.type throws because JSON.parse gave
\* null: the catch sends Invalid JSON
ParseThrows(data) == data.raw \in {"garbage", "null"}

\* variant: the catch of message closes the socket after the error frame
OnTextFatal(c, data, now) ==
    /\ conns[c].state = "open"
    /\ data.kind = "string" /\ data.raw \notin {"END", "PING"}
    /\ IF ParseThrows(data)
       THEN /\ CtlFrames < MaxCtl
            /\ sent' = WsSend(c, [Frame("error", 0) EXCEPT !.error = "Invalid JSON"])
            /\ conns' = [conns EXCEPT ![c].state = "closed"]
            /\ audio' = OnClose(c)
            /\ UNCHANGED <<relay, store, turns, clock, nextId>>
       ELSE IF data.type = "chat"
       THEN handleStreamingChat(c, data, now)
       ELSE UNCHANGED vars

\* any other string: JSON.parse, then handleStreamingChat for type chat
OnText(c, data, now) ==
    /\ conns[c].state = "open"
    /\ data.kind = "string" /\ data.raw \notin {"END", "PING"}
    /\ IF ParseThrows(data)
       THEN /\ CtlFrames < MaxCtl
            /\ sent' = WsSend(c, [Frame("error", 0) EXCEPT !.error = "Invalid JSON"])
            /\ UNCHANGED <<conns, audio, relay, store, turns, clock, nextId>>
       ELSE IF data.type = "chat"
       THEN handleStreamingChat(c, data, now)
       ELSE UNCHANGED vars

\* message(ws, data): the four branches of its if chain
message(c, data) ==
    \/ OnBinary(c, data)
    \/ OnEnd(c, data)
    \/ OnPing(c, data)
    \/ \E now \in Now : OnText(c, data, now)

(***************************************************************************)
(* Specifications                                                          *)
(*                                                                         *)
(* SpecChat: the connections, the chat frames and the chat turns, with a   *)
(* clock that every read finds moved on; the transcription backend of an   *)
(* stt connection stays silent.  SpecAudio: the connections, binary frames *)
(* and END, the frame queue and the transcription relay.  SpecKind: every  *)
(* request and every frame a client may send, the backends staying silent. *)
(* SpecRetry: chat turns that fail and texts that do not parse, followed   *)
(* by further chat frames, on connections the client keeps open.           *)
(* SpecFrames: every request and every action that sends a frame.          *)
(* SpecDrain: the frame queue with a consumer that is scheduled fairly and *)
(* a client that may send binary frames for ever.                          *)
(* Spec: every request, frame and backend answer.                          *)
(***************************************************************************)
TranscriptTexts == {<<>>, <<" ">>, <<"h","i"," ">>}

\* the transcripts of SpecRelay: empty, blank, and two different texts
RelayTexts == {<<>>, <<" ">>, <<"h","i"," ">>, <<" ","y","o">>}

\* the results one event may carry: one result or two
ResultSeqs ==
    LET Results == [text : RelayTexts, isPartial : BOOLEAN]
    IN {<<r>> : r \in Results} \cup {<<r, q>> : r \in Results, q \in Results}

Connect == \E c \in Conns, pathname \in Paths, isUpgrade \in BOOLEAN : fetch(c, pathname, isUpgrade)

\* the requests that upgrade
Upgrade == \E c \in Conns, pathname \in {"/ws/stt", "/ws/chat"} : fetch(c, pathname, TRUE)

Disconnect == \E c \in Conns : ClientClose(c)

NextChat ==
    \/ Upgrade
    \/ Disconnect
    \/ \E c \in Conns, data \in ChatFrames, now \in Later : OnText(c, data, now)
    \/ \E t \in TurnIds, f \in Fragments : GenYield(t, f)
    \/ \E t \in TurnIds : GenThrow(t)
    \/ \E t \in TurnIds : GenFixed(t)
    \/ \E t \in TurnIds, responseTime \in Later : GenReturn(t, responseTime)
    \/ \E t \in TurnIds, raw \in RawSummaries : SummarizeReturns(t, raw)
    \/ \E t \in TurnIds : SummarizeThrows(t)

NextAudio ==
    \/ Upgrade
    \/ Disconnect
    \/ \E c \in Conns, data \in DataFrames : OnBinary(c, data)
    \/ \E c \in Conns, data \in DataFrames : OnEnd(c, data)
    \/ \E c \in Conns : AudioPull(c)
    \/ \E c \in Conns : TranscribeSendReturns(c)
    \/ \E c \in Conns : TranscribeThrows(c)
    \/ \E c \in Conns, text \in TranscriptTexts, isPartial \in BOOLEAN :
          TranscriptEvent(c, text, isPartial)
    \/ \E c \in Conns : TranscriptEnds(c)

\* the frames of SpecKind: every binary and control frame, a chat frame that
\* passes the checks and one that fails them
KindFrames ==
    {BinaryFrame(b) : b \in Chunks} \cup ControlFrames
    \cup {TextFrame("object", "chat", id, UserContent) : id \in {"ca", "cx"}}

NextKind ==
    \/ Connect
    \/ Disconnect
    \/ \E c \in Conns, data \in KindFrames : OnBinary(c, data)
    \/ \E c \in Conns, data \in KindFrames : OnEnd(c, data)
    \/ \E c \in Conns, data \in KindFrames : OnPing(c, data)
    \/ \E c \in Conns, data \in KindFrames, now \in Later : OnText(c, data, now)

Next ==
    \/ NextChat
    \/ NextAudio
    \/ Connect
    \/ \E c \in Conns, data \in DataFrames : message(c, data)
    \/ \E t \in TurnIds, responseTime \in Now : GenReturn(t, responseTime)

\* the adapter with its records of past calls erased: no action reads them,
\* so a run that pushes and pulls for ever stays in finitely many states
Forget(a) == [a EXCEPT !.pushed = <<>>, !.yielded = <<>>, !.late = 0]

\* message(ws, data) for a binary frame, the queue holding fewer than MaxQueue
\* chunks
DrainBinary(c, data) ==
    /\ conns[c].state = "open"
    /\ data.kind = "binary"
    /\ Len(audio[c].queue) < MaxQueue
    /\ audio' = [audio EXCEPT ![c] = Forget(IF @.exists THEN push(@, data.bytes) ELSE @)]
    /\ UNCHANGED <<conns, sent, relay, store, turns, clock, nextId>>

\* the transcription client asks the AudioStream for its next element
DrainPull(c) ==
    /\ RelayActive(c)
    /\ audio[c].iter # "finished"
    /\ audio' = [audio EXCEPT ![c] = Forget(pull(@))]
    /\ UNCHANGED <<conns, sent, relay, store, turns, clock, nextId>>

NextDrain ==
    \/ Upgrade
    \/ Disconnect
    \/ \E c \in Conns, data \in DataFrames : OnEnd(c, data)
    \/ \E c \in Conns, data \in DataFrames : DrainBinary(c, data)
    \/ \E c \in Conns : DrainPull(c)

\* the frames of SpecFrames: PING, the texts JSON.parse rejects, an object that
\* is no chat frame, a chat frame that passes the checks and one that fails
\* them; SpecFrames runs one chat turn
ReplyFrames ==
    (ControlFrames \ {TextFrame("END", "", "", <<>>)})
    \cup {TextFrame("object", "chat", id, UserContent) : id \in {"ca", "cx"}}

NextFrames ==
    \/ Connect
    \/ Disconnect
    \/ \E c \in Conns, data \in ReplyFrames : OnPing(c, data)
    \/ \E c \in Conns, data \in ReplyFrames, now \in Later :
          /\ data.type = "chat" => turns = <<>>
          /\ OnText(c, data, now)
    \/ \E t \in TurnIds, f \in Fragments : GenYield(t, f)
    \/ \E t \in TurnIds, responseTime \in Later : GenReturn(t, responseTime)
    \/ \E t \in TurnIds, raw \in RawSummaries : SummarizeReturns(t, raw)
    \/ \E c \in Conns : TranscribeSendReturns(c)
    \/ \E c \in Conns : TranscribeThrows(c)
    \/ \E c \in Conns, text \in TranscriptTexts, isPartial \in BOOLEAN :
          TranscriptEvent(c, text, isPartial)

\* the frames of SpecRetry: a text JSON.parse rejects, a chat frame that passes
\* the checks and one that fails them
RetryFrames ==
    {TextFrame("garbage", "", "", <<>>)}
    \cup {TextFrame("object", "chat", id, UserContent) : id \in {"ca", "cx"}}

NextRetry ==
    \/ Upgrade
    \/ \E c \in Conns, data \in RetryFrames, now \in Later : OnText(c, data, now)
    \/ \E t \in TurnIds, f \in Fragments : GenYield(t, f)
    \/ \E t \in TurnIds : GenThrow(t)
    \/ \E t \in TurnIds, responseTime \in Later : GenReturn(t, responseTime)
    \/ \E t \in TurnIds, raw \in RawSummaries : SummarizeReturns(t, raw)
    \/ \E t \in TurnIds : SummarizeThrows(t)

\* the frames of SpecOrphan: chat frames that pass the checks, for a chat of
\* an Anthropic model and for a chat of the other supported model
OrphanFrames == {TextFrame("object", "chat", id, UserContent) : id \in {"ca", "cm"}}

NextOrphan ==
    \/ \E c \in Conns : fetch(c, "/ws/chat", TRUE)
    \/ Disconnect
    \/ \E c \in Conns, data \in OrphanFrames, now \in Later : OnText(c, data, now)
    \/ \E t \in TurnIds, f \in Fragments : GenYield(t, f)
    \/ \E t \in TurnIds : GenThrow(t)
    \/ \E t \in TurnIds : GenFixed(t)
    \/ \E t \in TurnIds, responseTime \in Later : GenReturn(t, responseTime)
    \/ \E t \in TurnIds, raw \in RawSummaries : SummarizeReturns(t, raw)
    \/ \E t \in TurnIds : SummarizeThrows(t)

\* the frames of SpecAnswer: the chat frames of SpecOrphan, a chat frame for a
\* chat that does not exist and one without content
AnswerFrames ==
    OrphanFrames \cup {TextFrame("object", "chat", "cx", UserContent),
                       TextFrame("object", "chat", "ca", <<>>)}

NextAnswer ==
    \/ \E c \in Conns : fetch(c, "/ws/chat", TRUE)
    \/ \E c \in Conns, data \in AnswerFrames, now \in Later : OnText(c, data, now)
    \/ \E t \in TurnIds, f \in Fragments : GenYield(t, f)
    \/ \E t \in TurnIds : GenThrow(t)
    \/ \E t \in TurnIds : GenFixed(t)
    \/ \E t \in TurnIds, responseTime \in Later : GenReturn(t, responseTime)
    \/ \E t \in TurnIds, raw \in RawSummaries : SummarizeReturns(t, raw)
    \/ \E t \in TurnIds : SummarizeThrows(t)

\* chat turns whose reads of the wall clock may find it where the last read
\* left it (new Date() has millisecond resolution)
NextClock ==
    \/ \E c \in Conns : fetch(c, "/ws/chat", TRUE)
    \/ \E c \in Conns, data \in OrphanFrames, now \in Now : OnText(c, data, now)
    \/ \E t \in TurnIds, f \in Fragments : GenYield(t, f)
    \/ \E t \in TurnIds : GenFixed(t)
    \/ \E t \in TurnIds, responseTime \in Now : GenReturn(t, responseTime)
    \/ \E t \in TurnIds, raw \in RawSummaries : SummarizeReturns(t, raw)

\* one chat turn whose response and whose summarizer result range over the
\* texts that probe the summary decision
NextSummary ==
    \/ \E c \in Conns : fetch(c, "/ws/chat", TRUE)
    \/ \E c \in Conns, now \in Later :
          /\ turns = <<>>
          /\ OnText(c, TextFrame("object", "chat", "ca", UserContent), now)
    \/ \E t \in TurnIds, f \in GateTexts \cup SentenceTexts \cup SpacedTexts :
          GenYieldText(t, f)
    \/ \E t \in TurnIds, responseTime \in Later : GenReturn(t, responseTime)
    \/ \E t \in TurnIds, raw \in RawTexts : SummarizeReturns(t, raw)

\* audio connections and the results of the transcription
NextRelay ==
    \/ \E c \in Conns : fetch(c, "/ws/stt", TRUE)
    \/ Disconnect
    \/ \E c \in Conns : TranscribeSendReturns(c)
    \/ \E c \in Conns, results \in ResultSeqs : TranscriptResults(c, results)
    \/ \E c \in Conns : TranscribeThrows(c)
    \/ \E c \in Conns : TranscriptEnds(c)

SpecChat == Init /\ [][NextChat]_vars

SpecRelay == Init /\ [][NextRelay]_vars

SpecSummary == Init /\ [][NextSummary]_vars

SpecClock == Init /\ [][NextClock]_vars

SpecRetry == Init /\ [][NextRetry]_vars

SpecFrames == Init /\ [][NextFrames]_vars

SpecAudio == Init /\ [][NextAudio]_vars

SpecKind == Init /\ [][NextKind]_vars

\* SpecAudio with the consumer scheduled and the transcription answering in
\* finite time: the client of the AudioStream keeps asking for elements,
\* transcribe.send returns, and the result stream ends once the audio
\* sequence has finished
SpecAudioFair ==
    /\ SpecAudio
    /\ \A c \in Conns :
          /\ WF_vars(AudioPull(c))
          /\ WF_vars(TranscribeSendReturns(c))
          /\ WF_vars(TranscriptEnds(c) /\ audio[c].iter = "finished")

\* chat turns on chat connections that the client may close at any time,
\* with backends that answer in finite time: the generator of a turn yields
\* its fixed text and returns, and summarizeText returns or throws
SpecOrphan ==
    /\ Init /\ [][NextOrphan]_vars
    /\ \A t \in 1..MaxTurns :
          /\ WF_vars(t \in TurnIds /\ GenFixed(t))
          /\ WF_vars(t \in TurnIds /\ \E responseTime \in Later : GenReturn(t, responseTime))
          /\ WF_vars(t \in TurnIds /\ (SummarizeThrows(t)
                                        \/ \E raw \in RawSummaries : SummarizeReturns(t, raw)))

\* chat turns on chat connections that stay open, with backends that answer
\* in finite time
SpecAnswer ==
    /\ Init /\ [][NextAnswer]_vars
    /\ \A t \in 1..MaxTurns :
          /\ WF_vars(t \in TurnIds /\ GenFixed(t))
          /\ WF_vars(t \in TurnIds /\ \E responseTime \in Later : GenReturn(t, responseTime))
          /\ WF_vars(t \in TurnIds /\ (SummarizeThrows(t)
                                        \/ \E raw \in RawSummaries : SummarizeReturns(t, raw)))

\* the adapter alone, any number of binary frames, and a transcription client
\* that keeps asking for the next element
SpecDrain == Init /\ [][NextDrain]_vars /\ \A c \in Conns : WF_vars(DrainPull(c))

Spec == Init /\ [][Next]_vars

(***************************************************************************)
(* Summary decision of POST /chats/:id/messages                            *)
(***************************************************************************)
\* String.prototype.replace(/\s+/g, ' ')
ReplaceWsRuns(s) ==
    LET kept == SelectSeq([i \in 1..Len(s) |-> i],
                          LAMBDA i : ~IsWs(s[i]) \/ i = 1 \/ ~IsWs(s[i - 1]))
    IN [k \in 1..Len(kept) |-> IF IsWs(s[kept[k]]) THEN " " ELSE s[kept[k]]]

\* (m?.[1] ?? text.trim()).replace(/\s+/g, ' ').trim(), m being the match of
\* the pattern on text.trim() (t ranges over the one value of text.trim())
firstSentenceOf(text) ==
    CHOOSE fs \in {Trim(ReplaceWsRuns(IF MatchEnd(t) = 0 THEN t
                                      ELSE SubSeq(t, 1, MatchEnd(t)))) :
                     t \in {Trim(text)}} : TRUE

isDecentSummary(s) ==
    LET len == Len(s)
        words == WordCount(s)
    IN IF words < MinSummaryWords \/ words > MaxSummaryWords THEN FALSE
       ELSE IF len < MinSummaryLen \/ len > MaxSummaryLen THEN FALSE
       ELSE IF Includes(s, <<Backtick, Backtick, Backtick>>)
               \/ Includes(s, <<"h","t","t","p">>) THEN FALSE
       ELSE IF \E i \in 1..Len(s) : s[i] \in {"{", "}", ";"} THEN FALSE
       ELSE IF ~(s[1] \in UpperCase) THEN FALSE
       ELSE TRUE

\* the summary the handler stores and returns for the response assistantText,
\* summarized being what summarizeText returns when it is called, and
\* whether summarizeText is called
PostMessagesSummary(assistantText, summarized) ==
    LET candidate == firstSentenceOf(assistantText)
    IN IF isDecentSummary(candidate)
       THEN [summarizer |-> FALSE,
             summary |-> IF EndsWithDot(candidate) THEN candidate
                         ELSE candidate \o <<".">>]
       ELSE [summarizer |-> TRUE, summary |-> summarized]

(***************************************************************************)
(* Properties                                                              *)
(***************************************************************************)
\* the rows a turn wrote with a role
RowsOf(t, role) == {i \in 1..Len(store) : store[i].turn = t /\ store[i].role = role}

\* the frames a turn sent, in send order
TurnFrames(t) == SelectSeq(sent[turns[t].conn], LAMBDA f : f.turn = t)

\* how many frames of a type a turn sent
Count(t, type) == Len(SelectSeq(TurnFrames(t), LAMBDA f : f.type = type))

\* the chat frame of the turn fails one of the three checks
Rejected(t) ==
    \/ turns[t].chatId = ""
    \/ turns[t].content = <<>>
    \/ turns[t].chatId \notin DOMAIN ChatRows
    \/ ChatRows[turns[t].chatId] \notin SUPPORTED_MODEL_IDS

\* C1: every turn has inserted at most one assistant message, and a turn that
\* has sent a complete frame has inserted exactly one
C1_AtMostOneAssistant ==
    \A t \in TurnIds :
        /\ Cardinality(RowsOf(t, "assistant")) <= 1
        /\ Count(t, "complete") >= 1 => Cardinality(RowsOf(t, "assistant")) = 1

\* two turns, on two connections, have both sent their complete frame
C1_Witness ==
    \E t, u \in TurnIds :
        /\ turns[t].conn # turns[u].conn
        /\ Count(t, "complete") = 1 /\ Count(u, "complete") = 1
        /\ Cardinality(RowsOf(t, "assistant")) = 1

Completed(t) ==
    /\ Cardinality(RowsOf(t, "assistant")) = 1
    /\ Count(t, "complete") = 1
    /\ Count(t, "error") = 0

Failed(t) ==
    /\ RowsOf(t, "assistant") = {}
    /\ Count(t, "error") = 1
    /\ Count(t, "complete") = 0

\* C2: a turn that has ended is completed (one assistant message, one complete
\* frame, no error frame) or failed (no assistant message, one error frame, no
\* complete frame); no turn has both an error frame and an assistant message;
\* no turn has an assistant message and no terminal frame
C2_TwoOutcomes ==
    \A t \in TurnIds :
        /\ turns[t].pc = "done" => (Completed(t) \/ Failed(t))
        /\ ~(Count(t, "error") >= 1 /\ RowsOf(t, "assistant") # {})
        /\ RowsOf(t, "assistant") # {} => Count(t, "complete") + Count(t, "error") >= 1

\* one turn has completed and another has failed after its user message was
\* stored
C2_Witness ==
    \E t, u \in TurnIds :
        /\ turns[t].pc = "done" /\ Completed(t)
        /\ turns[u].pc = "done" /\ Failed(u) /\ RowsOf(u, "user") # {}

\* C3: a turn whose generation or summarizer call failed has no assistant
\* message and no complete frame and, once ended, exactly one error frame
C3_FailureIsError ==
    \A t \in TurnIds :
        turns[t].fault # "none" =>
            /\ RowsOf(t, "assistant") = {}
            /\ Count(t, "complete") = 0
            /\ turns[t].pc = "done" => Count(t, "error") = 1

\* the error a chat frame must be answered with, from the fields of the frame
ExpectedError(t) ==
    IF turns[t].chatId = "" \/ turns[t].content = <<>>
    THEN "Missing chatId or content"
    ELSE IF turns[t].chatId \notin DOMAIN ChatRows THEN "Chat not found"
    ELSE "Unsupported model for this chat"

\* C4: a chat frame that fails a check is answered with exactly one frame, the
\* error frame of the first failing check, and no row is inserted for it
C4_Rejection ==
    \A t \in TurnIds :
        Rejected(t) =>
            /\ Len(TurnFrames(t)) = 1
            /\ TurnFrames(t)[1].type = "error"
            /\ TurnFrames(t)[1].error = ExpectedError(t)
            /\ RowsOf(t, "user") \cup RowsOf(t, "assistant") = {}

\* a frame that fails only the third check has been answered while the store
\* holds the rows of an earlier turn
C4_Witness ==
    \E t \in TurnIds :
        /\ Rejected(t)
        /\ TurnFrames(t)[1].error = "Unsupported model for this chat"
        /\ Len(store) = 2

\* concatenation of the texts of a sequence of frames
RECURSIVE ConcatTexts(_)
ConcatTexts(fs) == IF fs = <<>> THEN <<>> ELSE Head(fs).text \o ConcatTexts(Tail(fs))

\* the frames of a turn are start, then chunks, then complete, and the chunk
\* texts concatenated are the content of the assistant message of the turn
StartChunksComplete(t, minChunks) ==
    LET fs == TurnFrames(t)
        n == Len(fs)
    IN /\ n >= 2 + minChunks
       /\ fs[1].type = "start"
       /\ fs[n].type = "complete"
       /\ \A i \in 2..(n - 1) : fs[i].type = "chunk"
       /\ \A i \in RowsOf(t, "assistant") :
             store[i].content = ConcatTexts(SubSeq(fs, 2, n - 1))
       /\ RowsOf(t, "assistant") # {}

\* C5 as stated: a turn that passed the checks, none of whose backend calls
\* failed and that has ended, has sent start, one or more chunks, then complete
C5_Original ==
    \A t \in TurnIds :
        (~Rejected(t) /\ turns[t].fault = "none" /\ turns[t].pc = "done")
            => StartChunksComplete(t, 1)

\* C5 amended: a turn that passed the checks, none of whose backend calls
\* failed and that has ended, has sent start, zero or more chunks, then
\* complete, the chunk texts making up the stored content; and in every state
\* a complete frame is the last frame of its turn
C5_FrameOrder ==
    \A t \in TurnIds :
        /\ (~Rejected(t) /\ turns[t].fault = "none" /\ turns[t].pc = "done")
              => StartChunksComplete(t, 0)
        /\ \A i \in 1..Len(TurnFrames(t)) :
              TurnFrames(t)[i].type = "complete" => i = Len(TurnFrames(t))

\* a turn has ended with two chunks of different texts between start and
\* complete
C5_Witness ==
    \E t \in TurnIds :
        /\ turns[t].pc = "done" /\ turns[t].fault = "none"
        /\ Len(TurnFrames(t)) = 4
        /\ TurnFrames(t)[2].text # TurnFrames(t)[3].text
        /\ StartChunksComplete(t, 2)

\* the turns of a connection that have not ended
InFlight(c) == {t \in TurnIds : turns[t].conn = c /\ turns[t].pc # "done"}

\* C6: no connection has two turns in flight
C6_OneTurnInFlight == \A c \in Conns : Cardinality(InFlight(c)) <= 1

\* C7: on a connection, no frame of another turn lies between two frames of
\* one turn
C7_Contiguous ==
    \A c \in Conns : \A i, j, k \in 1..Len(sent[c]) :
        (i < j /\ j < k /\ sent[c][i].turn # 0 /\ sent[c][i].turn = sent[c][k].turn)
            => sent[c][j].turn \in {0, sent[c][i].turn}

\* C8 as stated, first half: no turn runs on a connection opened on /ws/stt
C8_Original == \A t \in TurnIds : conns[turns[t].conn].type # "stt"

\* C8 amended: the type of a connection never changes once set, and a
\* connection opened on /ws/chat owns no adapter and no relay, so a binary
\* frame or END received on it changes nothing and sends nothing
C8_KindFixed ==
    [][\A c \in Conns :
          /\ conns[c].type # "none" => conns'[c].type = conns[c].type
          /\ conns[c].type = "chat" =>
                /\ ~audio[c].exists /\ relay[c] = NoRelay
                /\ \A data \in DataFrames :
                      (OnBinary(c, data) \/ OnEnd(c, data)) => UNCHANGED vars]_vars

\* a connection opened on /ws/chat is open, so that binary frames and END
\* reach it, beside a connection opened on /ws/stt whose adapter has queued a
\* chunk and has ended
C8_Witness ==
    \E c, d \in Conns :
        /\ conns[c].type = "chat" /\ conns[c].state = "open"
        /\ ENABLED OnBinary(c, BinaryFrame("b1"))
        /\ ENABLED OnEnd(c, TextFrame("END", "", "", <<>>))
        /\ conns[d].type = "stt" /\ audio[d].queue # <<>> /\ audio[d].done

\* C9: in every state the chunks yielded followed by the chunks queued are the
\* chunks pushed, in push order; when the sequence has finished and no push
\* came after end, the chunks yielded are exactly the chunks pushed; the
\* sequence finishes only after end; and a pull made after end with the queue
\* empty finishes the sequence
C9_Fifo ==
    \A c \in Conns :
        /\ audio[c].yielded \o audio[c].queue = audio[c].pushed
        /\ (audio[c].iter = "finished" /\ audio[c].late = 0)
              => audio[c].yielded = audio[c].pushed
        /\ audio[c].iter = "finished" => audio[c].done
        /\ (audio[c].exists /\ audio[c].done /\ audio[c].queue = <<>>)
              => pull(audio[c]).iter = "finished"

\* two different chunks were pushed, then end, and the sequence has finished
C9_Witness ==
    \E c \in Conns :
        /\ audio[c].iter = "finished" /\ audio[c].late = 0
        /\ Len(audio[c].pushed) = 2 /\ audio[c].pushed[1] # audio[c].pushed[2]
        /\ audio[c].yielded = audio[c].pushed

\* C10: the chunks pushed after end are neither queued nor yielded
C10_PushAfterEndIgnored ==
    \A c \in Conns :
        audio[c].yielded \o audio[c].queue
            = SubSeq(audio[c].pushed, 1, Len(audio[c].pushed) - audio[c].late)

\* C11: the sequence never finishes before end() (a pull on an empty queue
\* that has not ended yields nothing and does not finish), a pull after end()
\* on an empty queue finishes it, and with the consumer scheduled fairly end()
\* is always eventually followed by the end of the sequence
C11_EndThenTerminates ==
    /\ [](\A c \in Conns :
            /\ audio[c].iter = "finished" => audio[c].done
            /\ (audio[c].exists /\ ~audio[c].done /\ audio[c].queue = <<>>)
                  => /\ pull(audio[c]).iter # "finished"
                     /\ pull(audio[c]).yielded = audio[c].yielded
            /\ (audio[c].exists /\ audio[c].done /\ audio[c].queue = <<>>)
                  => pull(audio[c]).iter = "finished")
    /\ \A c \in Conns : audio[c].done ~> (audio[c].iter = "finished")

\* the chunks pushed before end(), in push order
PushedBeforeEnd(c) == SubSeq(audio[c].pushed, 1, Len(audio[c].pushed) - audio[c].late)

\* C12: the adapter of a closed audio connection is marked ended, END marks
\* the adapter ended, and when the sequence has finished every chunk pushed
\* before end() has been yielded, in push order
C12_EndDrainsQueue ==
    /\ [](\A c \in Conns :
            /\ (audio[c].exists /\ conns[c].state = "closed") => audio[c].done
            /\ audio[c].iter = "finished" =>
                  /\ Len(audio[c].yielded) >= Len(PushedBeforeEnd(c))
                  /\ SubSeq(audio[c].yielded, 1, Len(PushedBeforeEnd(c))) = PushedBeforeEnd(c))
    /\ [][\A c \in Conns : \A data \in DataFrames :
            (audio[c].exists /\ OnEnd(c, data)) => audio'[c].done]_vars

\* the socket of an audio connection has closed while its queue holds two
\* chunks, the transcription client still asking for elements
C12_Witness ==
    \E c \in Conns :
        /\ conns[c].state = "closed" /\ RelayActive(c)
        /\ audio[c].done /\ audio[c].late = 0
        /\ Len(audio[c].queue) = 2
        /\ ENABLED AudioPull(c)

\* the positions of the error frames of the relay on a connection
RelayErrors(c) == {i \in 1..Len(sent[c]) : sent[c][i].error = "TranscribeError"}

\* C13: a failure of the transcription appends one error frame and closes the
\* connection; a connection holds at most one such frame, it is closed and its
\* relay has ended, and no partial or final frame follows the error frame
C13_ErrorThenClose ==
    /\ [](\A c \in Conns :
            /\ Cardinality(RelayErrors(c)) <= 1
            /\ \A i \in RelayErrors(c) :
                  /\ conns[c].state = "closed" /\ relay[c].pc = "finished"
                  /\ sent[c][i].type = "error"
                  /\ \A j \in (i + 1)..Len(sent[c]) :
                        sent[c][j].type \notin {"partial", "final"})
    /\ [][\A c \in Conns :
            TranscribeThrows(c) =>
                /\ Len(sent'[c]) = Len(sent[c]) + 1
                /\ RelayErrors(c) = {}
                /\ RelayErrors(c)' = {Len(sent'[c])}
                /\ conns'[c].state = "closed"]_vars

\* the transcription failed after a partial frame had been sent
C13_Witness ==
    \E c \in Conns :
        /\ Len(sent[c]) = 3
        /\ sent[c][2].type = "partial"
        /\ RelayErrors(c) = {3}
        /\ conns[c].state = "closed"

\* C14: on an audio connection, once the adapter has ended with no chunk
\* pushed after end, the relay eventually ends; the relay has then closed the
\* connection, the frames of the connection are ready followed by partial,
\* final and at most one error frame, and no frame is sent once the relay has
\* ended
C14_RelayEnds ==
    /\ \A c \in Conns :
          (audio[c].exists /\ audio[c].done)
              ~> (relay[c].pc = "finished" \/ audio[c].late > 0)
    /\ [](\A c \in Conns :
            /\ relay[c].pc = "finished" => conns[c].state = "closed"
            /\ conns[c].type = "stt" =>
                  \A i \in 2..Len(sent[c]) :
                      sent[c][i].type \in {"partial", "final", "error"})
    /\ [][\A c \in Conns : relay[c].pc = "finished" => sent'[c] = sent[c]]_vars

\* binary chunks then END have been received on an audio connection, a final
\* frame has been sent and the relay has ended
C14_Witness ==
    \E c \in Conns :
        /\ Len(audio[c].pushed) = 2 /\ audio[c].late = 0 /\ audio[c].done
        /\ audio[c].iter = "finished"
        /\ relay[c].pc = "finished"
        /\ Len(sent[c]) = 2 /\ sent[c][2].type = "final"

\* C15: on a connection that was accepted the first frame sent is ready and
\* no later frame is ready; nothing is sent on a connection that was not
\* accepted
C15_ReadyFirst ==
    \A c \in Conns :
        /\ conns[c].type \in {"stt", "chat"} =>
              /\ Len(sent[c]) >= 1
              /\ sent[c][1].type = "ready"
              /\ \A i \in 2..Len(sent[c]) : sent[c][i].type # "ready"
        /\ conns[c].type = "none" => sent[c] = <<>>

\* a chat connection has sent ready, pong and the frames of a complete turn
\* while an audio connection has sent ready, a partial frame and an error
C15_Witness ==
    \E c, d \in Conns :
        /\ conns[c].type = "chat" /\ Len(sent[c]) >= 5
        /\ sent[c][2].type = "pong"
        /\ sent[c][Len(sent[c])].type = "complete"
        /\ conns[d].type = "stt" /\ Len(sent[d]) = 3
        /\ sent[d][2].type = "partial" /\ sent[d][3].type = "error"

\* C16: a text frame that JSON.parse rejects appends exactly one frame, the
\* error frame Invalid JSON, to the frames of its connection and changes
\* nothing else: the connection stays open, no turn starts, the message store
\* and every adapter are unchanged
C16_InvalidJson ==
    [][\A c \in Conns : \A now \in Now \cup Later :
          OnText(c, TextFrame("garbage", "", "", <<>>), now) =>
              /\ sent' = [sent EXCEPT ![c] =
                             Append(@, [Frame("error", 0) EXCEPT !.error = "Invalid JSON"])]
              /\ conns'[c].state = "open"
              /\ UNCHANGED <<conns, audio, relay, store, turns>>]_vars

\* Invalid JSON has been answered on an open audio connection whose adapter
\* holds a chunk, after a chat turn had stored its user message
C16_Witness ==
    \E c \in Conns :
        /\ conns[c].type = "stt" /\ conns[c].state = "open"
        /\ audio[c].queue # <<>>
        /\ Len(store) = 1
        /\ sent[c][Len(sent[c])].error = "Invalid JSON"

\* a chat frame that passes the three checks
ValidChatFrame == TextFrame("object", "chat", "ca", UserContent)

\* the positions on a connection of the error frames of turns and of the
\* Invalid JSON frames
ErrorFrames(c) == {i \in 1..Len(sent[c]) : sent[c][i].type = "error"}

\* the turns of a connection whose first frame follows an error frame of the
\* connection
TurnsAfterError(c) ==
    {u \in TurnIds :
        /\ turns[u].conn = c
        /\ \E i \in ErrorFrames(c) : \E j \in (i + 1)..Len(sent[c]) :
              /\ sent[c][j].turn = u
              /\ \A k \in 1..i : sent[c][k].turn # u}

\* C17: sending an error frame for a turn or for a text that does not parse
\* leaves the connection as it is; an open connection that has sent an error
\* frame accepts a valid chat frame; and a turn started after an error frame
\* that passes the checks and whose backend calls do not fail ends with start,
\* chunks, complete
C17_UsableAfterError ==
    /\ [][\A c \in Conns :
            (Len(sent'[c]) > Len(sent[c]) /\ sent'[c][Len(sent'[c])].type = "error")
                => conns'[c] = conns[c]]_vars
    /\ [](\A c \in Conns :
            /\ (ErrorFrames(c) # {} /\ conns[c].state = "open" /\ Len(turns) < MaxTurns)
                  => ENABLED OnText(c, ValidChatFrame, clock + 1)
            /\ \A u \in TurnsAfterError(c) :
                  (~Rejected(u) /\ turns[u].fault = "none" /\ turns[u].pc = "done")
                      => StartChunksComplete(u, 0))

\* on one connection a turn has ended with the error frame of the summarizer
\* failure, and a later turn has sent start, two chunks and complete
C17_Witness ==
    \E c \in Conns : \E t, u \in TurnIds :
        /\ turns[t].conn = c /\ turns[t].fault = "summarizer" /\ Count(t, "error") = 1
        /\ u \in TurnsAfterError(c)
        /\ turns[u].pc = "done" /\ turns[u].fault = "none"
        /\ StartChunksComplete(u, 2)

\* C18: a request opens a connection exactly when it is an upgrade request
\* for /ws/stt or /ws/chat, the connection being of type stt or chat
\* accordingly; every other request is answered as plain HTTP, with no
\* connection, no adapter, no relay and no frame; and every connection that
\* is or was open has one of the two types
C18_OnlyTwoPaths ==
    /\ [][\A c \in Conns : \A pathname \in Paths : \A isUpgrade \in BOOLEAN :
            fetch(c, pathname, isUpgrade) =>
                IF isUpgrade /\ pathname = "/ws/stt"
                THEN conns'[c] = [type |-> "stt", state |-> "open"]
                ELSE IF isUpgrade /\ pathname = "/ws/chat"
                THEN conns'[c] = [type |-> "chat", state |-> "open"]
                ELSE /\ conns'[c] = [type |-> "none", state |-> "http"]
                     /\ UNCHANGED <<sent, audio, relay>>]_vars
    /\ [](\A c \in Conns :
            /\ conns[c].state \in {"open", "closed"} <=> conns[c].type \in {"stt", "chat"}
            /\ conns[c].state = "http" =>
                  (sent[c] = <<>> /\ ~audio[c].exists /\ relay[c] = NoRelay))

\* a request for another path has been answered as plain HTTP and the next
\* request has opened a chat connection on which a turn has started
C18_Witness ==
    /\ conns[1].state = "http"
    /\ conns[2] = [type |-> "chat", state |-> "open"]
    /\ \E t \in TurnIds : turns[t].conn = 2 /\ turns[t].pc = "generating"

\* C19: every turn that passed the checks has exactly one user message in the
\* store, holding the content of its chat frame under the messageId of its
\* start frame and placed before the assistant message of the turn; the
\* history given to the generator holds it; and no step removes or changes a
\* row of the store
C19_UserMessageKept ==
    /\ [](\A t \in TurnIds :
            ~Rejected(t) =>
                /\ Cardinality(RowsOf(t, "user")) = 1
                /\ \A i \in RowsOf(t, "user") :
                      /\ store[i].id = turns[t].messageId
                      /\ store[i].content = turns[t].content
                      /\ store[i].chatId = turns[t].chatId
                      /\ \A j \in RowsOf(t, "assistant") : i < j
                /\ \E k \in 1..Len(turns[t].history) :
                      turns[t].history[k] = turns[t].messageId
                /\ Len(TurnFrames(t)) >= 1
                /\ TurnFrames(t)[1].type = "start"
                /\ TurnFrames(t)[1].messageId = turns[t].messageId)
    /\ [][/\ Len(store') >= Len(store)
          /\ \A i \in 1..Len(store) : store'[i] = store[i]]_vars

\* a turn has failed in the summarizer call, another has completed, and the
\* store holds the user messages of both
C19_Witness ==
    \E t, u \in TurnIds :
        /\ turns[t].fault = "summarizer" /\ turns[t].pc = "done"
        /\ turns[u].pc = "done" /\ Count(u, "complete") = 1
        /\ RowsOf(t, "user") # {} /\ RowsOf(u, "user") # {}
        /\ Len(store) = 3

\* the summaries a stored row holds: the value of its summary column, if the
\* row has one
PersistedSummaries(m) == IF "summary" \in DOMAIN m THEN {m.summary} ELSE {}

CompleteFrames(c) ==
    {k \in 1..Len(sent[c]) : sent[c][k].type = "complete"}

\* C20: the summary of a completed turn is never the empty text, whatever
\* the accumulated text and whatever the summarizer returned, and the
\* assistant message stored under the responseId of the complete frame holds
\* the summary of that frame
C20_SummaryPersisted ==
    \A c \in Conns : \A k \in CompleteFrames(c) :
        /\ sent[c][k].summary # <<>>
        /\ \E i \in 1..Len(store) :
              /\ store[i].id = sent[c][k].responseId
              /\ store[i].role = "assistant"
              /\ sent[c][k].summary \in PersistedSummaries(store[i])

\* the part of C20 the frames alone decide: the summary of a complete frame
\* is never the empty text, it is the summary the turn decided on, and one
\* assistant message is stored under the responseId of the frame
C20_FrameSummaryNonEmpty ==
    \A c \in Conns : \A k \in CompleteFrames(c) :
        /\ sent[c][k].summary # <<>>
        /\ sent[c][k].summary = turns[sent[c][k].turn].summary
        /\ Cardinality({i \in 1..Len(store) :
                           /\ store[i].id = sent[c][k].responseId
                           /\ store[i].role = "assistant"}) = 1

\* turns have completed on the three ways to a summary: the leading
\* sentence, the coerced summarizer result and the fallback for an empty
\* summarizer result
C20_Cases ==
    \E c \in Conns : \E k \in CompleteFrames(c) :
        sent[c][k].summary = FALLBACK_SUMMARY

\* the chunk frames a turn has sent
ChunkCount(t) == Count(t, "chunk")

\* the summarizer is being called for turn t, or has been called
SummarizerCalled(t) ==
    \/ turns[t].pc = "summarizing"
    \/ turns[t].fault = "summarizer"
    \/ turns[t].pc = "done" /\ Count(t, "complete") = 1
          /\ ~GateAccepts(FirstSentence(turns[t].fullResponse))

ChunkFrames(t) == SelectSeq(TurnFrames(t), LAMBDA f : f.type = "chunk")

\* C22: every stored message is whole and stays as it was written: an
\* assistant message is written by a turn that has ended, and its content is
\* the concatenation of the texts of all the chunks the generator of the turn
\* yielded; a user message holds the content of its chat frame; a stored
\* summary is found on assistant messages only; and no step changes or
\* removes a stored row
C22_MessagesWhole ==
    /\ [](\A i \in 1..Len(store) :
            LET t == store[i].turn
            IN /\ store[i].role \in {"user", "assistant"}
               /\ store[i].role = "assistant" =>
                     /\ turns[t].pc = "done"
                     /\ store[i].content = ConcatTexts(ChunkFrames(t))
                     /\ store[i].content = turns[t].fullResponse
                     /\ Len(ChunkFrames(t)) =
                           turns[t].nfrags + (IF turns[t].gen = "last" THEN 1 ELSE 0)
               /\ store[i].role = "user" => store[i].content = turns[t].content
               /\ PersistedSummaries(store[i]) # {} => store[i].role = "assistant")
    /\ [][/\ Len(store') >= Len(store)
          /\ \A i \in 1..Len(store) : store'[i] = store[i]]_vars

\* one turn has ended and stored an assistant message holding its chunk,
\* while another has received a chunk and has stored its user message only
C22_Witness ==
    \E t, u \in TurnIds :
        /\ turns[t].pc = "done" /\ Len(ChunkFrames(t)) >= 1
        /\ \E i \in RowsOf(t, "assistant") : store[i].content = FragLead
        /\ turns[u].pc = "generating" /\ Len(ChunkFrames(u)) >= 1
        /\ RowsOf(u, "assistant") = {} /\ RowsOf(u, "user") # {}

\* the connection of turn t has closed
Orphan(t) == conns[turns[t].conn].state = "closed"

\* C23: a close of the connection leaves the chat turns as they are: the
\* step that closes changes no turn, no stored row and no frame; a turn that
\* is generating on a closed connection goes on consuming the generator
\* and, the backends answering in finite time, ends; and a turn that has
\* ended on a closed connection without a failed backend call has stored
\* exactly one assistant message, whose content is all its chunks, and has
\* made the send of its complete frame
C23_CloseDoesNotCancel ==
    /\ [](\A t \in TurnIds :
            (Orphan(t) /\ ~Rejected(t) /\ turns[t].pc = "done"
                /\ turns[t].fault = "none") =>
               /\ Completed(t)
               /\ \A i \in RowsOf(t, "assistant") :
                     store[i].content = ConcatTexts(ChunkFrames(t)))
    /\ [][/\ (\E c \in Conns : conns[c].state = "open" /\ conns'[c].state = "closed")
                => (turns' = turns /\ store' = store /\ sent' = sent)
          /\ \A t \in TurnIds :
                (Orphan(t) /\ turns[t].pc = "generating") =>
                   /\ turns'[t].pc \in {"generating", "summarizing", "done"}
                   /\ Len(turns'[t].fullResponse) >= Len(turns[t].fullResponse)
                   /\ Len(TurnFrames(t)') >= Len(TurnFrames(t))]_vars
    /\ \A t \in 1..MaxTurns :
          (t \in TurnIds /\ Orphan(t) /\ turns[t].pc = "generating")
             ~> (t \in TurnIds /\ turns[t].pc = "done")

\* the connection of a turn has closed while the turn is generating, one
\* chunk consumed, and the generator may yield the next chunk or return
C23_Witness ==
    \E t \in TurnIds :
        /\ Orphan(t) /\ turns[t].pc = "generating"
        /\ turns[t].nfrags = 1
        /\ ENABLED GenYield(t, FragTail)
        /\ ENABLED (\E responseTime \in Later : GenReturn(t, responseTime))

\* the terminal frames a turn has sent
TerminalCount(t) == Count(t, "complete") + Count(t, "error")

\* C24: every call of handleStreamingChat on a connection that stays open
\* comes to send a terminal frame, the backends answering in finite time: a
\* turn sends at most one terminal frame, it has ended exactly when it has
\* sent one, the terminal frame is the last frame of the turn, a chat frame
\* that fails a check is answered with its error frame in the step that
\* receives it, and every turn eventually has its terminal frame
C24_EventuallyTerminal ==
    /\ [](\A t \in TurnIds :
            /\ TerminalCount(t) <= 1
            /\ turns[t].pc = "done" <=> TerminalCount(t) = 1
            /\ Rejected(t) => Count(t, "error") = 1
            /\ \A i \in 1..Len(TurnFrames(t)) :
                  TurnFrames(t)[i].type \in {"complete", "error"}
                     => i = Len(TurnFrames(t)))
    /\ \A t \in 1..MaxTurns :
          (t \in TurnIds) ~> (t \in TurnIds /\ TerminalCount(t) = 1)

\* on one open connection a turn has ended with its complete frame after
\* chunks, and another with the error frame of a failed summarizer call
C24_Witness ==
    \E t, u \in TurnIds :
        /\ turns[t].conn = turns[u].conn
        /\ conns[turns[t].conn].state = "open"
        /\ Count(t, "complete") = 1 /\ Len(ChunkFrames(t)) >= 1
        /\ Count(u, "error") = 1 /\ ~Rejected(u)

\* C25: no two stored messages of one chat carry the same createdAt
C25_TotalOrder ==
    \A i, j \in 1..Len(store) :
        (i # j /\ store[i].chatId = store[j].chatId)
            => store[i].createdAt # store[j].createdAt

\* the words of a text: its maximal runs of non-whitespace characters
WordRuns(s) ==
    {<<i, j>> \in (1..Len(s)) \X (1..Len(s)) :
        /\ i <= j
        /\ \A k \in i..j : ~IsWs(s[k])
        /\ (i = 1 \/ IsWs(s[i - 1]))
        /\ (j = Len(s) \/ IsWs(s[j + 1]))}

\* the gate as the specification words it
isAdequateSummary(s) ==
    /\ Cardinality(WordRuns(s)) \in 3..60
    /\ Len(s) \in 15..300
    /\ ~\E i \in 1..(Len(s) - 2) :
           s[i] = Backtick /\ s[i + 1] = Backtick /\ s[i + 2] = Backtick
    /\ ~\E i \in 1..(Len(s) - 3) :
           s[i] = "h" /\ s[i + 1] = "t" /\ s[i + 2] = "t" /\ s[i + 3] = "p"
    /\ \A i \in 1..Len(s) : s[i] \notin {"{", "}", ";"}
    /\ Len(s) >= 1 /\ s[1] \in UpperCase

\* C26: the turn takes the leading sentence as the summary exactly when the
\* sentence has 3 to 60 words and 15 to 300 characters, holds no code fence,
\* no http, none of { } ; and starts with an uppercase letter, and calls
\* the summarizer exactly when it does not
C26_Gate ==
    /\ [](\A t \in TurnIds :
            turns[t].pc = "summarizing" =>
                ~isAdequateSummary(FirstSentence(turns[t].fullResponse)))
    /\ [][\A t \in TurnIds :
            /\ (turns[t].pc = "generating" /\ turns'[t].pc = "summarizing")
                  => ~isAdequateSummary(FirstSentence(turns[t].fullResponse))
            /\ (turns[t].pc = "generating" /\ turns'[t].pc = "done")
                  => /\ isAdequateSummary(FirstSentence(turns[t].fullResponse))
                     /\ Count(t, "complete")' = 1]_vars

\* turns have completed without the summarizer on a leading sentence of
\* exactly 15 characters and three words
C26_Witness ==
    \E t \in TurnIds :
        /\ turns[t].pc = "done" /\ Count(t, "complete") = 1
        /\ turns[t].fullResponse = PlainText
        /\ turns[t].summary = PlainText \o <<".">>

\* whitespace-normalized: the text trimmed, each run of whitespace inside it
\* replaced by one space
Normalize(s) ==
    LET t == Trim(s)
        kept == SelectSeq([i \in 1..Len(t) |-> i],
                          LAMBDA i : ~IsWs(t[i]) \/ ~IsWs(t[i - 1]))
    IN [k \in 1..Len(kept) |-> IF IsWs(t[kept[k]]) THEN " " ELSE t[kept[k]]]

\* the leading sentence as the specification words it: the trimmed text up
\* to and including its first terminator, or the whole trimmed text when it
\* holds none, whitespace-normalized
extractLeadingSentence(text) ==
    LET t == Trim(text)
        stops == {i \in 1..Len(t) : t[i] \in Terminators}
    IN Normalize(IF stops = {} THEN t ELSE SubSeq(t, 1, Min(stops)))

\* C27: the leading sentence a turn extracts from its full response is the
\* text up to and including the first terminator, whitespace-normalized, and
\* the whole trimmed text when the response holds no terminator; a turn that
\* completes without the summarizer sends it, period-terminated, as summary
C27_LeadingSentence ==
    \A t \in TurnIds :
        (turns[t].pc \in {"summarizing", "done"} /\ ~Rejected(t)) =>
            /\ FirstSentence(turns[t].fullResponse)
                  = extractLeadingSentence(turns[t].fullResponse)
            /\ (Count(t, "complete") = 1
                  /\ GateAccepts(FirstSentence(turns[t].fullResponse)))
                 => turns[t].summary
                      = HeuristicSummary(extractLeadingSentence(turns[t].fullResponse))

\* C28: the summary of every complete frame ends with a period; a summary
\* that comes from the summarizer call has at most 12 words, holds none of
\* the quote characters and is the summary of the complete frame, whatever
\* text the summarizer model returned
C28_SummaryShape ==
    /\ [](\A c \in Conns : \A k \in CompleteFrames(c) :
            /\ Len(sent[c][k].summary) >= 1
            /\ sent[c][k].summary[Len(sent[c][k].summary)] = ".")
    /\ [][\A t \in TurnIds :
            (turns[t].pc = "summarizing" /\ turns'[t].pc = "done"
                /\ Count(t, "complete")' = 1) =>
               /\ Cardinality(WordRuns(turns'[t].summary)) <= 12
               /\ \A i \in 1..Len(turns'[t].summary) :
                     turns'[t].summary[i] \notin {"\"", "'", Backtick}
               /\ turns'[t].summary[Len(turns'[t].summary)] = "."
               /\ TurnFrames(t)'[Len(TurnFrames(t)')].summary = turns'[t].summary]_vars

\* a turn has completed with a summary that the summarizer call gave and
\* that was cut down to 12 words
C28_Witness ==
    \E t \in TurnIds :
        /\ turns[t].pc = "done" /\ Count(t, "complete") = 1
        /\ ~GateAccepts(FirstSentence(turns[t].fullResponse))
        /\ turns[t].summary = ManyWords(MaxCoercedWords) \o <<".">>

\* the stored row that carries an id
RowOfId(id) == CHOOSE i \in 1..Len(store) : store[i].id = id

\* C29: the history given to the generator of a turn lists, once each and
\* in the order of createdAt, the messages of the chat of the turn that were
\* in the store when the user message of the turn had been inserted: the
\* messages of the chat inserted before it, and the user message itself
C29_History ==
    \A t \in TurnIds :
        ~Rejected(t) =>
            LET h == turns[t].history
                u == CHOOSE i \in RowsOf(t, "user") : TRUE
                read == {i \in 1..u : store[i].chatId = turns[t].chatId}
            IN /\ RowsOf(t, "user") # {}
               /\ {h[k] : k \in 1..Len(h)} = {store[i].id : i \in read}
               /\ Len(h) = Cardinality(read)
               /\ \E k \in 1..Len(h) : h[k] = turns[t].messageId
               /\ \A k \in 1..(Len(h) - 1) :
                     store[RowOfId(h[k])].createdAt <= store[RowOfId(h[k + 1])].createdAt

\* a turn was given a history of three messages: the user message and the
\* assistant message of an earlier turn of the chat, and its own user
\* message; the store holds a message of another chat or a later message
C29_Witness ==
    \E t, u \in TurnIds :
        /\ t # u /\ turns[t].chatId = turns[u].chatId
        /\ Len(turns[t].history) = 3
        /\ turns[t].history[1] = turns[u].messageId
        /\ turns[t].history[2] = turns[u].responseId
        /\ turns[t].history[3] = turns[t].messageId
        /\ turns[t].pc = "done" /\ Len(store) = 4

\* the partial and final frames of a connection, in send order
TranscriptFrames(c) == SelectSeq(sent[c], LAMBDA f : f.type \in {"partial", "final"})

\* the positions of the results whose trimmed text is not empty, in order
Spoken(results) ==
    SelectSeq([i \in 1..Len(results) |-> i], LAMBDA i : Trim(results[i].text) # <<>>)

\* C30: when an event of the transcription brings results, the relay sends,
\* to the connection of the relay and to no other, one frame for each result
\* whose trimmed text is not empty and none for the others, in the order of
\* the results: partial for a result marked partial and final otherwise,
\* with the trimmed text; and no other step sends a partial or final frame
C30_ResultFrames ==
    /\ [](\A c \in Conns : \A k \in 1..Len(TranscriptFrames(c)) :
            /\ TranscriptFrames(c)[k].text # <<>>
            /\ conns[c].type = "stt")
    /\ [][/\ \A c \in Conns, results \in ResultSeqs :
                TranscriptResults(c, results) =>
                   LET new == SubSeq(sent'[c], Len(sent[c]) + 1, Len(sent'[c]))
                       at == Spoken(results)
                   IN /\ SubSeq(sent'[c], 1, Len(sent[c])) = sent[c]
                      /\ Len(new) = Len(at)
                      /\ \A k \in 1..Len(at) :
                            /\ new[k].type = IF results[at[k]].isPartial
                                              THEN "partial" ELSE "final"
                            /\ new[k].text = Trim(results[at[k]].text)
                      /\ \A d \in Conns \ {c} : sent'[d] = sent[d]
          /\ \A c \in Conns :
                TranscriptFrames(c)' # TranscriptFrames(c) =>
                   \E results \in ResultSeqs : TranscriptResults(c, results)]_vars

\* a relay has had three results, the second one empty, and has sent a
\* partial frame and then a final frame with the two texts
C30_Witness ==
    \E c \in Conns :
        /\ relay[c].nres = 3
        /\ Len(sent[c]) = 3
        /\ sent[c][2].type = "partial" /\ sent[c][2].text = <<"h","i">>
        /\ sent[c][3].type = "final" /\ sent[c][3].text = <<"y","o">>

\* the text frame PING
PingFrame == TextFrame("PING", "", "", <<>>)

\* C31: a PING text frame appends exactly one frame, {type: pong}, to the
\* frames of its connection and changes nothing else: every adapter (queue,
\* ended flag, iterator), every chat turn, the message store, the relays and
\* the connections are unchanged; and a step that sends a pong frame sends
\* only that frame
C31_PingPong ==
    /\ [][\A c \in Conns :
            OnPing(c, PingFrame) =>
                /\ sent' = [sent EXCEPT ![c] = Append(@, Frame("pong", 0))]
                /\ UNCHANGED <<conns, audio, relay, store, turns>>]_vars
    /\ [][\A c \in Conns :
            (Len(sent'[c]) > Len(sent[c]) /\ sent'[c][Len(sent'[c])].type = "pong")
                => /\ Len(sent'[c]) = Len(sent[c]) + 1
                   /\ \A d \in Conns \ {c} : sent'[d] = sent[d]
                   /\ UNCHANGED <<audio, store, turns>>]_vars

\* PING has been answered on a chat connection whose turn is waiting for the
\* generator, its user message stored, while the adapter of an open audio
\* connection holds a chunk and is not ended
C31_Witness ==
    \E c, d \in Conns : \E t \in TurnIds :
        /\ conns[c].type = "stt" /\ conns[c].state = "open"
        /\ audio[c].queue # <<>> /\ ~audio[c].done
        /\ turns[t].conn = d /\ turns[t].pc = "generating"
        /\ Len(store) = 1
        /\ Len(sent[d]) = 3
        /\ sent[d][2].type = "start" /\ sent[d][3] = Frame("pong", 0)

\* C32: a binary frame (push), END or a close (end) and a pull on one audio
\* session leave the adapter of every other session as it is: its queue, its
\* ended flag, its iterator and its yielded sequence; no step changes two
\* adapters; and the chunks an adapter has yielded or holds are exactly the
\* chunks pushed on its own session, in push order
C32_AdaptersIndependent ==
    /\ [][\A c \in Conns : \A data \in DataFrames :
            (OnBinary(c, data) \/ OnEnd(c, data) \/ AudioPull(c) \/ ClientClose(c))
                => \A d \in Conns \ {c} : audio'[d] = audio[d]]_vars
    /\ [][\A c, d \in Conns :
            c # d => (audio'[c] = audio[c] \/ audio'[d] = audio[d])]_vars
    /\ [](\A c \in Conns : audio[c].yielded \o audio[c].queue = audio[c].pushed)

\* two audio sessions: one was sent a chunk and END and has yielded the chunk
\* and finished, the other was sent a different chunk, holds it in its queue
\* and is not ended
C32_Witness ==
    \E c, d \in Conns :
        /\ c # d
        /\ audio[c].exists /\ audio[d].exists
        /\ audio[c].done /\ audio[c].iter = "finished"
        /\ Len(audio[c].yielded) = 1 /\ audio[c].queue = <<>>
        /\ ~audio[d].done /\ audio[d].yielded = <<>>
        /\ Len(audio[d].queue) = 1 /\ audio[d].queue[1] # audio[c].yielded[1]

\* the rows of the store with an id
RowsWithId(rows, id) == {i \in 1..Len(rows) : rows[i].id = id}

\* C33: for every complete frame that has been sent, the store holds exactly
\* one row under its responseId, the assistant message of the frame's turn,
\* and exactly one row under its messageId, the user message of that turn,
\* stored earlier; and in the step that sends a complete frame the user
\* message is in the store before the step and the assistant message is in
\* the store when the frame has been sent
C33_StoredBeforeComplete ==
    /\ [](\A p \in FramePositions :
            LET f == sent[p[1]][p[2]]
            IN f.type = "complete" =>
                  /\ Cardinality(RowsWithId(store, f.responseId)) = 1
                  /\ Cardinality(RowsWithId(store, f.messageId)) = 1
                  /\ \A i \in RowsWithId(store, f.responseId) :
                        /\ store[i].role = "assistant" /\ store[i].turn = f.turn
                        /\ store[i].chatId = turns[f.turn].chatId
                        /\ \A j \in RowsWithId(store, f.messageId) :
                              /\ store[j].role = "user" /\ store[j].turn = f.turn
                              /\ j < i)
    /\ [][\A c \in Conns :
            (Len(sent'[c]) > Len(sent[c]) /\ sent'[c][Len(sent'[c])].type = "complete")
                => LET f == sent'[c][Len(sent'[c])]
                   IN /\ RowsWithId(store, f.messageId) # {}
                      /\ RowsWithId(store', f.responseId) # {}
                      /\ f.responseId # f.messageId]_vars

\* two turns of one chat have sent their complete frames, one with the
\* leading sentence as summary and one after a summarizer call, and the
\* store holds the four messages
C33_Witness ==
    \E t, u \in TurnIds :
        /\ t # u /\ turns[t].chatId = turns[u].chatId
        /\ Count(t, "complete") = 1 /\ Count(u, "complete") = 1
        /\ ~SummarizerCalled(t) /\ SummarizerCalled(u)
        /\ Len(store) = 4

\* the rows of a chat with a role
ChatRowsOf(chatId, role) ==
    {i \in 1..Len(store) : store[i].chatId = chatId /\ store[i].role = role}

\* the chats that have rows
StoredChats == {store[i].chatId : i \in 1..Len(store)}

\* C34: every stored assistant message was written by a turn of its chat
\* whose user message is stored in that chat, before it; no two assistant
\* messages were written by the same turn; and in every chat the assistant
\* messages are at most as many as the user messages
C34_AssistantPerUser ==
    \A chatId \in StoredChats :
        /\ \A i \in ChatRowsOf(chatId, "assistant") :
              /\ store[i].turn \in TurnIds
              /\ turns[store[i].turn].chatId = chatId
              /\ \E j \in ChatRowsOf(chatId, "user") :
                    /\ store[j].turn = store[i].turn
                    /\ store[j].id = turns[store[i].turn].messageId
                    /\ j < i
              /\ \A k \in ChatRowsOf(chatId, "assistant") :
                    store[k].turn = store[i].turn => k = i
        /\ Cardinality(ChatRowsOf(chatId, "assistant"))
              <= Cardinality(ChatRowsOf(chatId, "user"))

\* a chat holds two user messages and one assistant message: one of its
\* turns has completed after a summarizer call, the other has sent a chunk
\* and waits for the generator
C34_Witness ==
    \E t, u \in TurnIds :
        /\ turns[t].chatId = turns[u].chatId
        /\ turns[t].pc = "done" /\ SummarizerCalled(t)
        /\ Cardinality(RowsOf(t, "assistant")) = 1
        /\ turns[u].pc = "generating" /\ ChunkCount(u) = 1
        /\ Cardinality(ChatRowsOf(turns[t].chatId, "user")) = 2
        /\ Cardinality(ChatRowsOf(turns[t].chatId, "assistant")) = 1

\* turn u of the chat of turn t started after t had stored its assistant
\* message
RunAfter(t, u) ==
    /\ turns[t].chatId = turns[u].chatId
    /\ \E i \in RowsOf(t, "assistant") : \E j \in RowsOf(u, "user") : i < j

\* the assistant message of a turn is not ordered after the user message of
\* a turn run after it
C35_NextTurnNotBefore ==
    \A t, u \in TurnIds :
        RunAfter(t, u) =>
            \A i \in RowsOf(t, "assistant") : \A j \in RowsOf(u, "user") :
                store[i].createdAt <= store[j].createdAt

\* C35: the createdAt of the user message of a turn is less than the
\* createdAt of the assistant message of the turn, so that every listing by
\* createdAt places the user message first; and the assistant message of a
\* turn is not ordered after the user message of a turn run after it on the
\* same chat
C35_TurnOrder ==
    /\ \A t \in TurnIds :
          \A i \in RowsOf(t, "user") : \A j \in RowsOf(t, "assistant") :
              store[i].createdAt < store[j].createdAt
    /\ C35_NextTurnNotBefore

\* C36: the connection of a relay that has terminated is closed; the step in
\* which a relay terminates, after the end of the result stream or after an
\* error of the transcription, leaves its connection closed; and a step that
\* closes a connection is the close by the client or the step in which the
\* relay of the connection terminates, so the server closes no connection
\* whose relay is running and no chat connection
C36_CloseAtRelayEnd ==
    /\ [](\A c \in Conns : relay[c].pc = "finished" => conns[c].state = "closed")
    /\ [][\A c \in Conns :
            (TranscriptEnds(c) \/ TranscribeThrows(c))
                => relay'[c].pc = "finished" /\ conns'[c].state = "closed"]_vars
    /\ [][\A c \in Conns :
            (RelayActive(c) /\ relay'[c].pc = "finished") => conns'[c].state = "closed"]_vars
    /\ [][\A c \in Conns :
            (conns[c].state = "open" /\ conns'[c].state = "closed")
                => \/ ClientClose(c)
                   \/ RelayActive(c) /\ relay'[c].pc = "finished"]_vars

\* one relay has terminated after the end of its result stream, its last
\* frame a final transcript, another after an error sent before any result;
\* both connections are closed
C36_Witness ==
    \E c, d \in Conns :
        /\ relay[c].pc = "finished" /\ relay[d].pc = "finished"
        /\ conns[c].state = "closed" /\ conns[d].state = "closed"
        /\ Len(sent[c]) >= 2 /\ sent[c][Len(sent[c])].type = "final"
        /\ Len(sent[d]) = 2 /\ sent[d][2].type = "error"

\* text frames that JSON.parse accepts and whose value has no type chat: an
\* object with another type, and the JSON text null
NonChatJson ==
    {TextFrame("object", "other", "", <<>>), TextFrame("null", "", "", <<>>)}

\* the handling of a JSON object whose type is not chat changes nothing
C37_OtherObjectIgnored ==
    [][\A c \in Conns : \A now \in Now \cup Later :
          OnText(c, TextFrame("object", "other", "", <<>>), now) => UNCHANGED vars]_vars

\* C37: the handling of a text frame that parses as JSON and whose type is
\* not chat sends no frame, starts no turn and leaves the store, the adapters,
\* the relays and the connections unchanged
C37_NonChatIgnored ==
    [][\A c \in Conns : \A data \in NonChatJson : \A now \in Now \cup Later :
          OnText(c, data, now) =>
              UNCHANGED <<sent, turns, store, audio, relay, conns>>]_vars

\* C38: a turn calls the summarizer exactly when POST /messages would call
\* it for the same response text, and the summary of its complete frame is
\* the summary POST /messages would return for that text and the same
\* result of the summarizer
C38_SameDecision ==
    \A t \in TurnIds :
        /\ turns[t].pc = "summarizing" =>
              PostMessagesSummary(turns[t].fullResponse, <<>>).summarizer
        /\ (turns[t].pc = "done" /\ Count(t, "complete") = 1) =>
              \E rest \in {PostMessagesSummary(turns[t].fullResponse, turns[t].summary)} :
                  /\ rest.summarizer <=> SummarizerCalled(t)
                  /\ rest.summary = turns[t].summary

====
